---- MODULE Spec2Model ----
(***************************************************************************)
(* SubQG simulation core: the seeded generator (utils/seeded_rng.ts) and   *)
(* the sample generator with its node rule (utils/simulation_utils.ts).    *)
(*                                                                         *)
(* Numbers.  The program computes in IEEE-754 doubles.  Here               *)
(*  - a non-negative integer-valued double below 2^62 is a "wide" record   *)
(*    [hi, lo] standing for hi * 2^31 + lo (0 <= lo < 2^31), so that the   *)
(*    53-bit rounding of a product can be computed exactly;                *)
(*  - a time or a duration is a double [neg, w, sc] standing for           *)
(*    (-1)^neg * w * 2^-sc with w a wide number below 2^53, and the        *)
(*    products and quotients of linspace are rounded as doubles are;       *)
(*  - raw energy/phase values and thresholds are in units of 10^-4,        *)
(*    3-decimal display values in units of 10^-3, stored sample times in   *)
(*    units of 10^-2, noise factors in units of 10^-2;                     *)
(*  - Math.sin, Math.cos, Math.log and Math.sqrt are evaluated by integer  *)
(*    approximations on these grids.                                       *)
(* Seeds, durations, thresholds and noise factors are finite numbers.      *)
(***************************************************************************)
EXTENDS Integers, Sequences, FiniteSets, TLC

----------------------------------------------------------------------------
(* Bounds of the model *)

MaxDraws == 3        \* uniform draws made on each generator in SpecRng
MaxSeedHi == 1       \* seeds range up to (MaxSeedHi + 1) * 2^31 in magnitude
MaxRuns == 2         \* calls of calculateSimulationData in Spec
MaxSeed == 2         \* the runs of Spec take their seeds from 1..MaxSeed
MaxCalls == 4        \* calls of randn made on the generator of SpecRandn
MaxRandnSeed == 8    \* SpecRandn takes seeds from 1..MaxRandnSeed and RandnSeedLos
MaxBatchRuns == 2    \* numRuns of a batch analysis ranges over 0..MaxBatchRuns
MaxKnoten == 3       \* nodes collected by one batch analysis
MaxAnalysisRuns == 1 \* numRuns, and the nodes of an analysis, in SpecAnalysis

----------------------------------------------------------------------------
(* Arithmetic helpers *)

Pow2(k) == 2 ^ k

Max(x, y) == IF x >= y THEN x ELSE y

\* floor(log2(x)) for 1 <= x < 2^31
Log2Floor(x) == CHOOSE k \in 0..30 : Pow2(k) <= x /\ (k = 30 \/ x < Pow2(k + 1))

\* x / y rounded to the nearest integer, ties away from zero (y > 0):
\* the rounding of Number.prototype.toFixed
RoundDiv(x, y) ==
    IF x >= 0 THEN (2 * x + y) \div (2 * y) ELSE -((2 * (-x) + y) \div (2 * y))

Wide(h, l) == [hi |-> h, lo |-> l]

\* The exact product x * y of two integers in [0, 2^31), by 16-bit limbs
WideMul(x, y) ==
    LET x1  == x \div 65536
        x0  == x % 65536
        y1  == y \div 65536
        y0  == y % 65536
        p0  == x0 * y0
        mid == x1 * y0 + x0 * y1 + (p0 \div 65536)
        top == x1 * y1 + (mid \div 65536)
        l0  == p0 % 65536
        l1  == mid % 65536
    IN  Wide(top * 2 + (l1 \div 32768), (l1 % 32768) * 65536 + l0)

\* Number of low bits a double cannot hold for a value of this size
\* (0 below 2^53)
UlpBits(w) == IF w.hi < Pow2(22) THEN 0 ELSE Log2Floor(w.hi) - 21

\* Round w + (a fraction in (0, 1) if sticky, else 0) to the nearest double,
\* ties to even
RoundSticky(w, sticky) ==
    LET k    == UlpBits(w)
        q    == w.lo \div Pow2(k)
        r    == w.lo % Pow2(k)
        half == Pow2(k - 1)
        up   == r > half \/ (r = half /\ (sticky \/ q % 2 = 1))
        q2   == IF up THEN q + 1 ELSE q
    IN  IF k = 0 THEN w
        ELSE IF q2 = Pow2(31 - k) THEN Wide(w.hi + 1, 0)
        ELSE Wide(w.hi, q2 * Pow2(k))

\* Round to the nearest double, ties to even: the result of every double
\* multiplication and addition
RoundDouble(w) == RoundSticky(w, FALSE)

\* The exact sum w + n for 0 <= n < 2^31
WideAdd(w, n) ==
    IF w.lo > 2147483647 - n
    THEN Wide(w.hi + 1, w.lo - (2147483647 - n) - 1)
    ELSE Wide(w.hi, w.lo + n)

\* w * k exactly, for w.hi * k < 2^31
WideMulSmall(w, k) ==
    LET p == WideMul(w.lo, k) IN Wide(w.hi * k + p.hi, p.lo)

\* floor(w / k) and w mod k, for 0 < k < 2^15
WideDivSmall(w, k) ==
    LET r2   == w.hi % k
        l1   == w.lo \div 65536
        l0   == w.lo % 65536
        cur1 == r2 * 32768 + l1
        cur0 == (cur1 % k) * 65536 + l0
    IN  [q |-> Wide(w.hi \div k, (cur1 \div k) * 65536 + (cur0 \div k)),
         r |-> cur0 % k]

\* floor(w / 2^j), for j >= 0 (w is below 2^62)
WideShr(w, j) ==
    IF j = 0 THEN w
    ELSE IF j >= 62 THEN Wide(0, 0)
    ELSE IF j >= 31 THEN Wide(0, w.hi \div Pow2(j - 31))
    ELSE Wide(w.hi \div Pow2(j), (w.hi % Pow2(j)) * Pow2(31 - j) + (w.lo \div Pow2(j)))

\* w * 2^j, for 0 <= j <= 30 and w * 2^j < 2^62
WideShl(w, j) ==
    IF j = 0 THEN w
    ELSE Wide(w.hi * Pow2(j) + (w.lo \div Pow2(31 - j)), (w.lo % Pow2(31 - j)) * Pow2(j))

\* w is a multiple of 2^j
WideLowZero(w, j) ==
    IF j = 0 THEN TRUE
    ELSE IF j >= 62 THEN w = Wide(0, 0)
    ELSE IF j >= 31 THEN w.lo = 0 /\ w.hi % Pow2(j - 31) = 0
    ELSE w.lo % Pow2(j) = 0

WideLess(v, w) == v.hi < w.hi \/ (v.hi = w.hi /\ v.lo < w.lo)

\* Doubles

Dbl(n, h, l, e) == [neg |-> n, w |-> Wide(h, l), sc |-> e]

DZero == Dbl(FALSE, 0, 0, 56)

DIsZero(x) == x.w = Wide(0, 0)

\* The double of a rounded wide value at scale e, with w brought below 2^53
DNormal(n, w, e) ==
    IF w = Wide(0, 0) THEN DZero
    ELSE [neg |-> n, w |-> WideShr(w, UlpBits(w)), sc |-> e - UlpBits(w)]

\* x * k in doubles, for an integer 0 <= k <= 256
DMulSmall(x, k) == DNormal(x.neg, RoundDouble(WideMulSmall(x.w, k)), x.sc)

\* x / k in doubles, for an integer 0 < k <= 256 and x.w = 0 or >= 2^52
DDivSmall(x, k) ==
    LET d == WideDivSmall(WideShl(x.w, 9), k)
    IN  DNormal(x.neg, RoundSticky(d.q, d.r # 0), x.sc + 9)

\* Math.floor of a double of magnitude below 2^31
DFloor(x) ==
    LET f == WideShr(x.w, x.sc).lo
    IN  IF ~x.neg THEN f
        ELSE IF WideLowZero(x.w, x.sc) THEN -f ELSE -f - 1

\* x < y for non-negative doubles whose scales differ by at most 9
DLess(x, y) ==
    LET e == Max(x.sc, y.sc)
    IN  WideLess(WideShl(x.w, e - x.sc), WideShl(y.w, e - y.sc))

\* The decimal Number.prototype.toFixed(2) prints, in units of 10^-2: the
\* integer nearest to 100 * x, the larger one of two (x.sc >= 1)
DFixed2(x) ==
    LET n == (WideShr(WideMulSmall(x.w, 100), x.sc - 1).lo + 1) \div 2
    IN  IF x.neg THEN -n ELSE n

\* floor(|x| * k) for an integer k < 2^15, from the leading 31 bits of x
\* (x.w = 0 or >= 2^52)
DScaleFloor(x, k) ==
    LET f == WideShr(WideMulSmall(WideShr(x.w, 22), k), x.sc - 22).lo
    IN  IF x.neg THEN -f ELSE f

Min(x, y) == IF x <= y THEN x ELSE y

\* The double of an integer 0 <= n < 2^21
DInt(n) ==
    IF n = 0 THEN DZero
    ELSE Dbl(FALSE, n * Pow2(21 - Log2Floor(n)), 0, 52 - Log2Floor(n))

\* parseFloat of a decimal with two places, given in units of 10^-2: the
\* double nearest to n / 100 (0 <= n < 2^21)
ParseCenti(n) == DDivSmall(DInt(n), 100)

\* The odd part of an integer n >= 1
RECURSIVE OddPart(_)
OddPart(n) == IF n % 2 = 1 THEN n ELSE OddPart(n \div 2)

\* x / y in doubles, for a divisor y = k * 2^j with an odd k <= 255 (then
\* x / y is x / k, correctly rounded, with the exponent moved by j)
DDiv(x, y) ==
    LET k == OddPart(y.w.hi)
        j == Log2Floor(y.w.hi \div k) + 31 - y.sc
        q == DDivSmall(x, k)
    IN  IF DIsZero(q) THEN DZero ELSE [q EXCEPT !.sc = q.sc + j]

\* The exact sum and difference of two wide values (v >= w for the latter)
WideAddW(v, w) ==
    IF v.lo > 2147483647 - w.lo
    THEN Wide(v.hi + w.hi + 1, v.lo - (2147483647 - w.lo) - 1)
    ELSE Wide(v.hi + w.hi, v.lo + w.lo)

WideSubW(v, w) ==
    IF v.lo >= w.lo
    THEN Wide(v.hi - w.hi, v.lo - w.lo)
    ELSE Wide(v.hi - w.hi - 1, v.lo + (2147483647 - w.lo) + 1)

\* floor(log2(w)) for a wide value w >= 1
WideLog2(w) == IF w.hi > 0 THEN 31 + Log2Floor(w.hi) ELSE Log2Floor(w.lo)

\* x + y in doubles, for non-negative doubles whose scales differ by at
\* most 9
DAdd(x, y) ==
    IF DIsZero(x) THEN y
    ELSE IF DIsZero(y) THEN x
    ELSE LET e == Max(x.sc, y.sc)
         IN  DNormal(FALSE,
                     RoundDouble(WideAddW(WideShl(x.w, e - x.sc), WideShl(y.w, e - y.sc))),
                     e)

\* x - y in doubles, for doubles x >= y >= 0 whose scales differ by at most
\* 9; a difference below 2^52 ulps is exact and is brought up to 53 bits
DSub(x, y) ==
    LET e == Max(x.sc, y.sc)
        d == WideSubW(WideShl(x.w, e - x.sc), WideShl(y.w, e - y.sc))
    IN  IF d = Wide(0, 0) THEN DZero
        ELSE IF WideLog2(d) >= 52 THEN DNormal(FALSE, RoundDouble(d), e)
        ELSE [neg |-> FALSE, w |-> WideShl(d, 52 - WideLog2(d)),
              sc |-> e + 52 - WideLog2(d)]

\* r * x in doubles, for a double x >= 0 and r = num / 2^exp with num <= 256
DTimes(r, x) ==
    LET p == DMulSmall(x, r.num)
    IN  IF DIsZero(p) THEN DZero ELSE [p EXCEPT !.sc = p.sc + r.exp]

\* The decimal Number.prototype.toFixed(1) prints, in units of 10^-1
DFixed1(x) ==
    LET n == (WideShr(WideMulSmall(x.w, 10), x.sc - 1).lo + 1) \div 2
    IN  IF x.neg THEN -n ELSE n

----------------------------------------------------------------------------
(* utils/seeded_rng.ts *)

mBits == 31          \* m = 0x80000000 = 2^mBits
a == 1103515245
c == 12345

\* x % this.m for a non-negative x
ModM(w) == w.lo

\* A seed argument: the finite number
\*   (IF neg THEN -1 ELSE 1) * (hi * 2^31 + lo + (IF half THEN 1/2 ELSE 0))
SeedNum(n, h, l, f) == [neg |-> n, hi |-> h, lo |-> l, half |-> f]

IntSeed(n) == SeedNum(FALSE, 0, n, FALSE)

\* Math.abs
Abs(s) == [s EXCEPT !.neg = FALSE]

\* Math.floor (the magnitude of a negative non-integer grows by one)
Floor(s) ==
    IF s.neg /\ s.half
    THEN IF s.lo = 2147483647
         THEN [s EXCEPT !.hi = s.hi + 1, !.lo = 0, !.half = FALSE]
         ELSE [s EXCEPT !.lo = s.lo + 1, !.half = FALSE]
    ELSE [s EXCEPT !.half = FALSE]

\* A plausible slip: rounding down before taking the absolute value
SeededRandomFloorFirst(seed) ==
    LET r == ModM(Abs(Floor(seed))) IN IF r = 0 THEN 1 ELSE r

\* constructor(seed): the initial value of this.seed
SeededRandom(seed) ==
    LET r == ModM(Floor(Abs(seed))) IN IF r = 0 THEN 1 ELSE r

\* A plausible slip: the increment is left out where the register is 0
nextIntZeroFixed(seed) ==
    IF seed = 0 THEN 0
    ELSE ModM(RoundDouble(WideAdd(RoundDouble(WideMul(a, seed)), c)))

\* nextInt(): the new value of this.seed, (a * seed + c) % m in doubles
nextInt(seed) ==
    ModM(RoundDouble(WideAdd(RoundDouble(WideMul(a, seed)), c)))

\* A plausible slip: the value is taken from the register before the update
nextFloatStale(seed) ==
    [seed |-> nextInt(seed), value |-> [num |-> seed, exp |-> mBits]]

\* nextFloat(): the updated register and the returned value
\* num / 2^exp (division by a power of two is exact in doubles)
nextFloat(seed) ==
    [seed |-> nextInt(seed), value |-> [num |-> nextInt(seed), exp |-> mBits]]

\* A plausible slip: the first value drawn is taken as it is
RedrawNever(x) == FALSE

\* randn: the condition of  while (u === 0)  and of  while (v === 0)
Redraw(x) == x.num = 0

\* Box-Muller, Math.sqrt(-2.0 * Math.log(u)) * Math.cos(2.0 * Math.PI * v),
\* for u, v in (0, 1) given as num / 2^31; the result is in units of 10^-4.
\* log2 is taken piecewise linearly in units of 1/1024, 13863 is
\* 2 * ln 2 in units of 10^-4, the radius is in units of 10^-2.
Log2Fix(x) ==
    LET e == Log2Floor(x)
    IN  e * 1024 + (IF e >= 10 THEN (x - Pow2(e)) \div Pow2(e - 10)
                               ELSE (x - Pow2(e)) * Pow2(10 - e))

ISqrt(n) == CHOOSE r \in 0..700 : r * r <= n /\ n < (r + 1) * (r + 1)

\* sin of an angle given in units of 1/10000 of a turn, in units of 10^-4
\* (Bhaskara's rational approximation on each half turn)
SinTurn(x) ==
    LET y    == x % 10000
        z    == IF y < 5000 THEN y ELSE y - 5000
        p    == z * (5000 - z)
        bhas == (40 * p) \div ((31250000 - p) \div 1000)
    IN  IF y < 5000 THEN bhas ELSE -bhas

CosTurn(x) == SinTurn(x + 2500)

BoxMuller(u, v) ==
    LET radius == ISqrt((13863 * (31 * 1024 - Log2Fix(u.num))) \div 1024)
    IN  RoundDiv(radius * CosTurn(v.num \div 214749), 100)

----------------------------------------------------------------------------
(* utils/simulation_utils.ts *)

F_ENERGY == 2000                  \* 0.2, in units of 10^-4
F_PHASE == 2030                   \* 0.203, in units of 10^-4
STEPS_PER_UNIT_DURATION == 100

\* linspace(start, stop, num): the doubles start + step * i with
\* step = (stop - start) / (num - 1).  start is 0 at the only call, so that
\* stop - start is stop and start + step * i is step * i, both exactly.
linspace(start, stop, num) ==
    IF num <= 0 THEN <<>>
    ELSE IF num = 1 THEN <<start>>
    ELSE LET step == DDivSmall(stop, num - 1)
         IN  [i \in 1..num |-> DMulSmall(step, i - 1)]

\* Math.max(10, Math.floor(currentDuration * STEPS_PER_UNIT_DURATION))
Steps(currentDuration) ==
    Max(10, DFloor(DMulSmall(currentDuration, STEPS_PER_UNIT_DURATION)))

\* A plausible slip: the variate is added as it is, not scaled by the noise
EnergieUnscaled(t, currentNoise, z) ==
    SinTurn(DScaleFloor(t, F_ENERGY)) + z

\* Math.sin(2 * Math.PI * F_ENERGY * t) + currentNoise * z
Energie(t, currentNoise, z) ==
    SinTurn(DScaleFloor(t, F_ENERGY)) + RoundDiv(currentNoise * z, 100)

\* Math.sin(2 * Math.PI * F_PHASE * t + Math.PI / 4) + currentNoise * z
Phase(t, currentNoise, z) ==
    SinTurn(DScaleFloor(t, F_PHASE) + 1250) + RoundDiv(currentNoise * z, 100)

\* The order in which the two arrays are filled
DrawOrderPhaseFirst == <<"phase", "energie">>

DrawOrder == <<"energie", "phase">>

\* A plausible slip: one decimal kept instead of two
Fixed2OneDecimal(t) == 10 * RoundDiv(DFixed2(t), 10)

\* parseFloat(t.toFixed(2)), in units of 10^-2
Fixed2(t) == DFixed2(t)

\* parseFloat(x.toFixed(3)), in units of 10^-3
Fixed3(x) == RoundDiv(x, 10)

\* A plausible slip: >= in place of > in the threshold tests
IsKnotenAtThreshold(rawEnergie, rawPhase, currentThreshold) ==
    /\ rawEnergie >= currentThreshold
    /\ rawPhase >= currentThreshold
    /\ Fixed3(rawEnergie) = Fixed3(rawPhase)

\* A plausible slip: the equality test of the display values left out
IsKnotenNoEquality(rawEnergie, rawPhase, currentThreshold) ==
    /\ rawEnergie > currentThreshold
    /\ rawPhase > currentThreshold

\* The node condition
IsKnoten(rawEnergie, rawPhase, currentThreshold) ==
    /\ rawEnergie > currentThreshold
    /\ rawPhase > currentThreshold
    /\ Fixed3(rawEnergie) = Fixed3(rawPhase)

\* A plausible slip: the second and third rules in the wrong order
CharacteristicLowNoiseFirst(displayEnergie, currentThreshold, currentNoise) ==
    IF displayEnergie * 100 > currentThreshold * 18 /\ currentNoise < 25
    THEN "Starker Hochenergie-Knoten (Niedrigrauschen)"
    ELSE IF currentNoise < 20
    THEN "Niedrigrauschen-Knoten"
    ELSE IF displayEnergie * 100 > currentThreshold * 15
    THEN "Hochenergie-Knoten"
    ELSE "Standard-Resonanzknoten"

\* The label of a node (displayEnergie in 10^-3, currentThreshold in 10^-4,
\* currentNoise in 10^-2)
Characteristic(displayEnergie, currentThreshold, currentNoise) ==
    IF displayEnergie * 100 > currentThreshold * 18 /\ currentNoise < 25
    THEN "Starker Hochenergie-Knoten (Niedrigrauschen)"
    ELSE IF displayEnergie * 100 > currentThreshold * 15
    THEN "Hochenergie-Knoten"
    ELSE IF currentNoise < 20
    THEN "Niedrigrauschen-Knoten"
    ELSE "Standard-Resonanzknoten"

\* The sample built for one index; knoten and characteristic are fields
\* only of a node
Point(t, rawEnergie, rawPhase, currentThreshold, currentNoise) ==
    LET displayEnergie == Fixed3(rawEnergie)
        displayPhase   == Fixed3(rawPhase)
        point == [time |-> Fixed2(t), energie |-> displayEnergie,
                  phase |-> displayPhase]
    IN  IF IsKnoten(rawEnergie, rawPhase, currentThreshold)
        THEN [time |-> Fixed2(t), energie |-> displayEnergie,
              phase |-> displayPhase, knoten |-> displayEnergie,
              characteristic |->
                  Characteristic(displayEnergie, currentThreshold, currentNoise)]
        ELSE point

\* A plausible slip: one generator kept and reused by later runs
NewRngShared(old, seed) == IF old = -1 THEN SeededRandom(seed) ELSE old

\* new SeededRandom(seed), made by the caller for each run (old is the
\* register of the previous run's instance, -1 when there is none)
NewRng(old, seed) == SeededRandom(seed)

----------------------------------------------------------------------------
(* unnamed/part_001: StatisticalAnalysis, the node frequency analysis *)

timeSegments == 10

\* A plausible slip: the index is not clamped into the last segment
SegmentIndexUnclamped(time, currentDuration) ==
    DFloor(DDiv(ParseCenti(time), DDivSmall(DInt(currentDuration), timeSegments)))

\* Math.min(Math.floor(knoten.time / segmentDuration), timeSegments - 1),
\* for a stored time in units of 10^-2 and a whole duration
SegmentIndex(time, currentDuration) ==
    Min(DFloor(DDiv(ParseCenti(time), DDivSmall(DInt(currentDuration), timeSegments))),
        timeSegments - 1)

\* segmentIndex of each node of allKnoten, in the order of the forEach
RECURSIVE SegmentIndices(_, _)
SegmentIndices(allKnoten, currentDuration) ==
    IF allKnoten = <<>> THEN <<>>
    ELSE <<SegmentIndex(Head(allKnoten).time, currentDuration)>>
         \o SegmentIndices(Tail(allKnoten), currentDuration)

\* distribution after the forEach: entry k counts the nodes of index k - 1;
\* a node whose index names no entry is passed over
Distribution(allKnoten, currentDuration) ==
    LET index == SegmentIndices(allKnoten, currentDuration)
    IN  [k \in 1..timeSegments |->
            Cardinality({j \in 1..Len(index) : index[j] = k - 1})]

\* parseFloat((totalKnotenFound / numRuns).toFixed(2)), in units of 10^-2
\* A plausible slip: the quotient is taken without the test of numRuns; 0 / 0
\* is NaN, written -1
AvgKnotenUnguarded(totalKnotenFound, numRuns) ==
    IF numRuns = 0 THEN -1 ELSE RoundDiv(totalKnotenFound * 100, numRuns)

\* avgKnoten, in units of 10^-2
AvgKnoten(totalKnotenFound, numRuns) ==
    IF numRuns > 0 THEN RoundDiv(totalKnotenFound * 100, numRuns) ELSE 0

----------------------------------------------------------------------------
(* unnamed/part_001: StatisticalAnalysis, the Riemann analysis.  Energies   *)
(* are in units of 10^-3, thresholds, relative excesses and Re(s) values in *)
(* units of 10^-4, noise and scaling factors in units of 10^-2; quotients   *)
(* are rounded to the grid                                                  *)

DENSITY_RE_BINS == 20
DENSITY_IM_BINS == 20

\* A plausible slip: >= in place of > in the test of the threshold
DividesAtLimit(currentThreshold) == currentThreshold >= 10

\* currentThreshold > 0.001: the branch that divides by the threshold
Divides(currentThreshold) == currentThreshold > 10

\* relativeEnergyExcess before it is clamped
RelativeEnergyExcess(energie, currentThreshold) ==
    IF Divides(currentThreshold)
    THEN RoundDiv((Max(energie * 10, currentThreshold) - currentThreshold) * 10000,
                  currentThreshold)
    ELSE IF energie > 0 THEN energie * 20 ELSE 0

\* Math.max(0, Math.min(relativeEnergyExcess, 5))
ClampExcess(x) == Max(0, Min(x, 50000))

\* A plausible slip: the result is not clamped from above
CalculatedReSNoUpperClamp(relativeEnergyExcess, currentNoise, riemannScalingFactor) ==
    Max(0, 5000 + RoundDiv((relativeEnergyExcess - currentNoise * 100)
                               * riemannScalingFactor, 100))

\* calculatedReS: 0.5 + deviationTerm, clamped into [0, 1]
CalculatedReS(relativeEnergyExcess, currentNoise, riemannScalingFactor) ==
    Max(0, Min(5000 + RoundDiv((relativeEnergyExcess - currentNoise * 100)
                                   * riemannScalingFactor, 100),
               10000))

\* floor(sqrt(n)), by bisection
RECURSIVE SqrtBetween(_, _, _)
SqrtBetween(n, lo, hi) ==
    IF hi - lo <= 1 THEN lo
    ELSE LET mid == (lo + hi) \div 2
         IN  IF mid * mid <= n THEN SqrtBetween(n, mid, hi)
             ELSE SqrtBetween(n, lo, mid)

\* Math.sqrt on the grid, for 0 <= n < 2^30
Sqrt(n) == SqrtBetween(n, 0, 32768)

RECURSIVE Sum(_)
Sum(data) == IF data = <<>> THEN 0 ELSE data[1] + Sum(Tail(data))

calculateMean(data) ==
    IF Len(data) = 0 THEN 0 ELSE RoundDiv(Sum(data), Len(data))

NumericOrder(x, y) == x < y

calculateMedian(data) ==
    IF Len(data) = 0 THEN 0
    ELSE LET sorted == SortSeq(data, NumericOrder)
             mid    == Len(sorted) \div 2          \* 0-based
         IN  IF Len(sorted) % 2 # 0 THEN sorted[mid + 1]
             ELSE RoundDiv(sorted[mid] + sorted[mid + 1], 2)

\* A plausible slip: the population formula, with divisor n
calculateStdDevPopulation(data, mean) ==
    IF Len(data) <= 1 THEN 0
    ELSE Sqrt(Sum([k \in 1..Len(data) |-> (data[k] - mean) * (data[k] - mean)])
                \div Len(data))

calculateStdDev(data, mean) ==
    IF Len(data) <= 1 THEN 0
    ELSE Sqrt(Sum([k \in 1..Len(data) |-> (data[k] - mean) * (data[k] - mean)])
                \div (Len(data) - 1))

\* A plausible slip: the index of Re(s) is not clamped into the last row
ReBinIndexUnclamped(re_s) == re_s \div (10000 \div DENSITY_RE_BINS)

\* reBinIndex, with reBinSize = 1 / DENSITY_RE_BINS
ReBinIndex(re_s) ==
    Min(re_s \div (10000 \div DENSITY_RE_BINS), DENSITY_RE_BINS - 1)

\* imBinIndex, with imBinSize = currentDuration / DENSITY_IM_BINS in doubles
ImBinIndex(im_s, currentDuration) ==
    Min(DFloor(DDiv(ParseCenti(im_s), DDivSmall(DInt(currentDuration), DENSITY_IM_BINS))),
        DENSITY_IM_BINS - 1)

\* reBinIndex and imBinIndex of every point
RECURSIVE BinIndices(_, _)
BinIndices(allSPlanePoints, currentDuration) ==
    IF allSPlanePoints = <<>> THEN <<>>
    ELSE <<[i |-> ReBinIndex(Head(allSPlanePoints).re_s),
            j |-> ImBinIndex(Head(allSPlanePoints).im_s, currentDuration)]>>
         \o BinIndices(Tail(allSPlanePoints), currentDuration)

\* The point is counted: both indices name a cell of counts
InGrid(index) ==
    /\ index.i >= 0 /\ index.i < DENSITY_RE_BINS
    /\ index.j >= 0 /\ index.j < DENSITY_IM_BINS

\* counts[i][j] after the forEach, from the indices of the points
Counts(indices, i, j) ==
    Cardinality({k \in 1..Len(indices) :
                    InGrid(indices[k]) /\ indices[k].i = i /\ indices[k].j = j})

\* The cells of a set, in the order of the two loops (i, then j)
RECURSIVE CellsInOrder(_)
CellsInOrder(cells) ==
    IF cells = {} THEN <<>>
    ELSE LET first == CHOOSE x \in cells :
                         \A y \in cells :
                             x.i * DENSITY_IM_BINS + x.j <= y.i * DENSITY_IM_BINS + y.j
         IN  <<first>> \o CellsInOrder(cells \ {first})

\* densityGridForState: the cells with counts[i][j] > 0
DensityGrid(indices) ==
    LET counted == {indices[k] : k \in {k \in 1..Len(indices) : InGrid(indices[k])}}
    IN  CellsInOrder({[i |-> x.i, j |-> x.j, density |-> Counts(indices, x.i, x.j)] :
                         x \in counted})

\* maxDensity: the largest count reached while counting
MaxDensity(indices) ==
    LET ds == {Counts(indices, indices[k].i, indices[k].j) :
                 k \in {k \in 1..Len(indices) : InGrid(indices[k])}}
    IN  IF ds = {} THEN 0 ELSE CHOOSE x \in ds : \A y \in ds : y <= x

\* What the forEach over knotenInRun appends for one node
SPlanePoint(knoten, currentThreshold, currentNoise, riemannScalingFactor) ==
    [re_s |-> CalculatedReS(ClampExcess(RelativeEnergyExcess(knoten.energie,
                                                             currentThreshold)),
                            currentNoise, riemannScalingFactor),
     im_s |-> knoten.time,
     originalTime |-> knoten.time,
     originalEnergie |-> knoten.energie]

----------------------------------------------------------------------------
(* App.tsx: the parameter search.  Noise factors are in units of 10^-2,    *)
(* thresholds in units of 10^-1                                             *)

MAX_SEARCH_ATTEMPTS == 50

\* A plausible slip: the budget is tested one attempt late
BudgetSpentLate(currentSearchAttempt) == currentSearchAttempt > MAX_SEARCH_ATTEMPTS

\* currentSearchAttempt >= MAX_SEARCH_ATTEMPTS
BudgetSpent(currentSearchAttempt) == currentSearchAttempt >= MAX_SEARCH_ATTEMPTS

\* A plausible slip: a count of 0 also ends the search as found
FoundAlways(knotenCountFromSim) == knotenCountFromSim >= 0

\* knotenCountFromSim > 0
Found(knotenCountFromSim) == knotenCountFromSim > 0

\* searchStatusMessage: "" and the three template strings
NoMessage == [kind |-> "", attempt |-> 0, noise |-> 0, threshold |-> 0, seed |-> 0]
Simuliere(currentSearchAttempt) ==
    [kind |-> "Simuliere Versuch", attempt |-> currentSearchAttempt,
     noise |-> 0, threshold |-> 0, seed |-> 0]
KnotenGefunden(currentSearchAttempt, noise, threshold, currentSeed) ==
    [kind |-> "Knoten gefunden", attempt |-> currentSearchAttempt,
     noise |-> noise, threshold |-> threshold, seed |-> currentSeed]
KeinKnoten ==
    [kind |-> "Kein Knoten", attempt |-> MAX_SEARCH_ATTEMPTS,
     noise |-> 0, threshold |-> 0, seed |-> 0]

\* A plausible slip: the width of the range is taken for its upper end
DrawNoiseWide(r) ==
    DFixed2(DAdd(DTimes(r, ParseCenti(75)), ParseCenti(5)))

\* parseFloat((Math.random() * (0.75 - 0.05) + 0.05).toFixed(2)), in units
\* of 10^-2, for the value r of Math.random()
DrawNoise(r) ==
    DFixed2(DAdd(DTimes(r, DSub(ParseCenti(75), ParseCenti(5))), ParseCenti(5)))

\* parseFloat((Math.random() * (1.8 - 0.7) + 0.7).toFixed(1)), in units of
\* 10^-1
DrawThreshold(r) ==
    DFixed1(DAdd(DTimes(r, DSub(ParseCenti(180), ParseCenti(70))), ParseCenti(70)))

\* Math.floor(Math.random() * 1000000)
DrawSeed(r) == DFloor(DTimes(r, DInt(1000000)))

\* Values of Math.random(): num / 2^8
Random(k) == [num |-> k, exp |-> 8]
NoiseRandoms == {Random(0), Random(255)}
ThresholdRandoms == {Random(0), Random(255)}
SeedRandoms == {Random(0), Random(255)}

SearchDurations == {100, 200}           \* the duration slider: 10..200 by 10
SearchNoises == {DrawNoise(r) : r \in NoiseRandoms}              \* 0.05, 0.75
SearchThresholds == {DrawThreshold(r) : r \in ThresholdRandoms}  \* 0.7, 1.8
SearchSeeds == {DrawSeed(r) : r \in SeedRandoms}                 \* 0, 996093
SliderNoises == {30, 75}                \* the noise slider: 0..1 by 0.05
SliderThresholds == {15, 18}            \* the threshold slider: 0.5..3 by 0.1
KnotenCounts == {0, 2}

\* The arguments calculateSimulationData is called with
SimDomain ==
    SearchDurations \X (SearchNoises \cup SliderNoises)
                    \X (SearchThresholds \cup SliderThresholds) \X SearchSeeds

\* The simulations return no node, but for at most one of the arguments,
\* which a search can draw
Sims ==
    {[p \in SimDomain |-> IF p = q THEN k ELSE 0] :
        q \in SearchDurations \X SearchNoises \X SearchThresholds \X SearchSeeds,
        k \in KnotenCounts}

\* A plausible slip: the controls stay enabled during a search
DisabledNever(app) == FALSE

\* disabled={isSearching} of the three sliders and of the search button
Disabled(app) == app.isSearching

\* The state of App before it is mounted, with its SubQGInteractive.
\* sim gives, for each <<duration, noise, threshold, seed>>, the number of
\* nodes calculateSimulationData returns for it (C1: it is a function of
\* these); memoDeps and effectDeps are the dependencies React has stored
\* for simulationData and for the search effect, knoten is
\* detailedKnotenPoints.length; draws counts the drawings of a trial triple
\* and reported lists the counts passed to onKnotenUpdate since the search
\* was started
AppInitial(seed, sim) ==
    [pc |-> "render",
     duration |-> 100, noise |-> 30, threshold |-> 15, currentSeed |-> seed,
     isSearching |-> FALSE, currentSearchAttempt |-> 0, knotenCountFromSim |-> 0,
     searchStatusMessage |-> NoMessage,
     memoDeps |-> <<>>, knoten |-> 0, effectDeps |-> <<>>,
     sim |-> sim, draws |-> 0, reported |-> <<>>]

\* The props of SubQGInteractive
Props(app) == <<app.duration, app.noise, app.threshold, app.currentSeed>>

\* The dependency array of the search effect
EffectDeps(app) ==
    <<app.isSearching, app.knotenCountFromSim, app.currentSearchAttempt,
      app.noise, app.threshold, app.currentSeed>>

\* The states the component renders from
AppState(app) ==
    <<app.duration, app.noise, app.threshold, app.currentSeed, app.isSearching,
      app.currentSearchAttempt, app.knotenCountFromSim, app.searchStatusMessage>>

\* A plausible slip: the next attempt is set up without the pending marker
SearchEffectNoMarker(app, newNoise, newThreshold, newSeed) ==
    IF ~app.isSearching THEN app
    ELSE IF app.knotenCountFromSim = -1
    THEN [app EXCEPT !.searchStatusMessage = Simuliere(app.currentSearchAttempt)]
    ELSE IF Found(app.knotenCountFromSim)
    THEN [app EXCEPT !.isSearching = FALSE,
                     !.searchStatusMessage =
                         KnotenGefunden(app.currentSearchAttempt, app.noise,
                                        app.threshold, app.currentSeed)]
    ELSE IF BudgetSpent(app.currentSearchAttempt)
    THEN [app EXCEPT !.isSearching = FALSE, !.searchStatusMessage = KeinKnoten]
    ELSE [app EXCEPT !.noise = newNoise, !.threshold = newThreshold,
                     !.currentSeed = newSeed,
                     !.currentSearchAttempt = app.currentSearchAttempt + 1,
                     !.draws = app.draws + 1]

\* The body of the search effect on the rendered state: the state updates
\* it queues, given the trial triple it would draw
SearchEffect(app, newNoise, newThreshold, newSeed) ==
    IF ~app.isSearching THEN app
    ELSE IF app.knotenCountFromSim = -1
    THEN [app EXCEPT !.searchStatusMessage = Simuliere(app.currentSearchAttempt)]
    ELSE IF Found(app.knotenCountFromSim)
    THEN [app EXCEPT !.isSearching = FALSE,
                     !.searchStatusMessage =
                         KnotenGefunden(app.currentSearchAttempt, app.noise,
                                        app.threshold, app.currentSeed)]
    ELSE IF BudgetSpent(app.currentSearchAttempt)
    THEN [app EXCEPT !.isSearching = FALSE, !.searchStatusMessage = KeinKnoten]
    ELSE [app EXCEPT !.noise = newNoise, !.threshold = newThreshold,
                     !.currentSeed = newSeed,
                     !.currentSearchAttempt = app.currentSearchAttempt + 1,
                     !.knotenCountFromSim = -1,
                     !.draws = app.draws + 1]

----------------------------------------------------------------------------
(* State *)

Gen == {1, 2}

VARIABLES
    gens,        \* SpecRng: the SeededRandom instances under comparison
    runNo,       \* number of calls of calculateSimulationData made so far
    args,        \* the current call: duration, noise, threshold, seed
    rng,         \* this.seed of the current call's SeededRandom (-1: none yet)
    pc,          \* "idle", "u" / "v" (inside randn), "points", "done"
    stage,       \* index into DrawOrder of the array being filled
    uDraw,       \* randn's local u
    timeArray,
    energieArray,
    phaseArray,
    samples,     \* the returned array
    drawLog,     \* <<array, index>> of each randn call, in call order
    prevArgs,    \* the arguments and the result of the previous call
    prevSamples,
    ptIn,        \* SpecPoint: one index of the final map, its inputs
    ptOut,       \* and the sample built from them (<<>> before)
    rn,          \* SpecRandn: a SeededRandom and its caller's calls of randn
    batch,       \* SpecBatch: the node frequency analysis of StatisticalAnalysis
    riem,        \* SpecRiemann: the Riemann analysis of StatisticalAnalysis
    search,      \* SpecSearch: the state of App and of its SubQGInteractive
    panel        \* SpecPanel: the StatisticalAnalysis component and its handlers

rngVars == <<gens>>
runVars == <<runNo, args, rng, pc, stage, uDraw, timeArray, energieArray,
             phaseArray, samples, drawLog, prevArgs, prevSamples>>
ptVars  == <<ptIn, ptOut>>
randnVars == <<rn>>
batchVars == <<batch>>
riemVars == <<riem>>
searchVars == <<search>>
panelVars == <<panel>>
vars    == <<rngVars, runVars, ptVars, randnVars, batchVars, riemVars, searchVars,
             panelVars>>

NoArgs == [duration |-> DZero, noise |-> 0, threshold |-> 0, seed |-> IntSeed(1)]
NoPointIn == [t |-> DZero, rawEnergie |-> 0, rawPhase |-> 0,
              threshold |-> 0, noise |-> 0]
NoFloat == [num |-> 0, exp |-> mBits]

RngIdle == gens = [g \in Gen |-> [arg |-> IntSeed(1), seed |-> 1, from |-> -1, out |-> <<>>]]
RunIdle ==
    /\ runNo = 0 /\ args = NoArgs /\ rng = -1 /\ pc = "idle" /\ stage = 1
    /\ uDraw = NoFloat /\ timeArray = <<>> /\ energieArray = <<>>
    /\ phaseArray = <<>> /\ samples = <<>> /\ drawLog = <<>>
    /\ prevArgs = NoArgs /\ prevSamples = <<>>
PtIdle == ptIn = NoPointIn /\ ptOut = <<>>
BatchIdle ==
    batch = [pc |-> "idle", numRuns |-> 0, duration |-> 0, i |-> 0,
             allKnoten |-> <<>>, result |-> <<>>]
RiemIdle ==
    riem = [pc |-> "idle", numRuns |-> 0, duration |-> 0, noise |-> 0,
            threshold |-> 0, scaling |-> 0, i |-> 0, total |-> 0,
            allReSValues |-> <<>>, allSPlanePoints |-> <<>>, excessLog |-> <<>>,
            result |-> <<>>]
SearchIdle == search = AppInitial(0, [p \in SimDomain |-> 0])
\* The component as mounted: useState(100), useState(0.1), and the props of
\* App's initial state
NoCall == [pc |-> "idle", closure |-> <<>>, i |-> 0, used |-> <<>>]
PanelInitial ==
    [props |-> <<100, 30, 15>>, numRuns |-> 100, riemannScalingFactor |-> 10,
     knotFreqIsLoading |-> FALSE, knotFreqAnalysisResult |-> <<>>,
     riemannIsLoading |-> FALSE, riemannAnalysisResult |-> <<>>,
     knotFreq |-> NoCall, riemann |-> NoCall]
PanelIdle == panel = PanelInitial
OthersIdle == BatchIdle /\ RiemIdle /\ SearchIdle /\ PanelIdle
RandnIdle ==
    rn = [seed |-> 1, pc |-> "idle", u |-> NoFloat, from |-> 1, draws |-> 0,
          zeros |-> 0, calls |-> 0]

----------------------------------------------------------------------------
(* SpecRng: two SeededRandom instances, each constructed from its own seed *)
(* argument and then asked for uniform numbers                            *)

SeedLos == {0, 1, 5, 8162280, 2147483643, 2147483647}

SeedArgs ==
    {SeedNum(n, h, l, f) : n \in BOOLEAN, h \in 0..MaxSeedHi, l \in SeedLos,
                           f \in BOOLEAN}

\* A live instance: the constructor argument, this.seed, the register value
\* before the latest draw, and the values nextFloat has returned so far
NewGen(arg) == [arg |-> arg, seed |-> SeededRandom(arg), from |-> -1, out |-> <<>>]

InitRng ==
    /\ gens \in {[g \in Gen |-> NewGen(f[g])] : f \in [Gen -> SeedArgs]}
    /\ RunIdle /\ PtIdle /\ RandnIdle /\ OthersIdle

NextFloat(g) ==
    /\ Len(gens[g].out) < MaxDraws
    /\ LET r == nextFloat(gens[g].seed)
       IN  gens' = [gens EXCEPT ![g].seed = r.seed,
                                ![g].from = gens[g].seed,
                                ![g].out  = Append(gens[g].out, r.value)]
    /\ UNCHANGED <<runVars, ptVars, randnVars, batchVars, riemVars, searchVars, panelVars>>

NextRng == \E g \in Gen : NextFloat(g)

SpecRng == InitRng /\ [][NextRng]_vars

----------------------------------------------------------------------------
(* Spec: a caller makes runs of calculateSimulationData, each on a          *)
(* SeededRandom it constructs for the run                                   *)

\* The doubles -0.0625, 0, 0.0625, 0.1, 0.115 and 0.125
Durations ==
    {Dbl(TRUE, 2097152, 0, 56), DZero, Dbl(FALSE, 2097152, 0, 56),
     Dbl(FALSE, 3355443, 429496730, 56), Dbl(FALSE, 3858759, 1460288881, 56),
     Dbl(FALSE, 2097152, 0, 55)}
Noises == {0, 30}                       \* units of 10^-2
Thresholds == {-10000}                  \* units of 10^-4
Seeds == {IntSeed(n) : n \in 1..MaxSeed}

\* The call up to the first randn: steps and timeArray
Start(d, n, t, s) ==
    /\ pc \in {"idle", "done"}
    /\ runNo < MaxRuns
    /\ runNo' = runNo + 1
    /\ prevArgs' = args
    /\ prevSamples' = samples
    /\ args' = [duration |-> d, noise |-> n, threshold |-> t, seed |-> s]
    /\ rng' = NewRng(rng, s)
    /\ timeArray' = linspace(0, d, Steps(d))
    /\ pc' = IF Steps(d) <= 0 THEN "done" ELSE "u"
    /\ stage' = 1
    /\ uDraw' = NoFloat
    /\ energieArray' = <<>>
    /\ phaseArray' = <<>>
    /\ samples' = <<>>
    /\ drawLog' = <<>>
    /\ UNCHANGED <<rngVars, ptVars, randnVars, batchVars, riemVars, searchVars, panelVars>>

\* randn: one pass of  while (u === 0) u = this.nextFloat()
DrawU ==
    /\ pc = "u"
    /\ LET r == nextFloat(rng)
       IN  /\ rng' = r.seed
           /\ uDraw' = r.value
           /\ pc' = IF Redraw(r.value) THEN "u" ELSE "v"
    /\ UNCHANGED <<runNo, args, stage, timeArray, energieArray, phaseArray,
                   samples, drawLog, prevArgs, prevSamples, rngVars, ptVars, randnVars, batchVars, riemVars, searchVars, panelVars>>

\* randn: one pass of  while (v === 0) v = this.nextFloat(); with v nonzero
\* randn returns and the map callback stores its element
DrawV ==
    /\ pc = "v"
    /\ LET r    == nextFloat(rng)
           z    == BoxMuller(uDraw, r.value)
           what == DrawOrder[stage]
           arr  == IF what = "energie" THEN energieArray ELSE phaseArray
           i    == Len(arr) + 1
           x    == IF what = "energie"
                   THEN Energie(timeArray[i], args.noise, z)
                   ELSE Phase(timeArray[i], args.noise, z)
           full == i = Len(timeArray)
       IN  /\ rng' = r.seed
           /\ IF Redraw(r.value)
              THEN UNCHANGED <<pc, stage, energieArray, phaseArray, drawLog>>
              ELSE /\ energieArray' = IF what = "energie"
                                      THEN Append(energieArray, x) ELSE energieArray
                   /\ phaseArray' = IF what = "phase"
                                    THEN Append(phaseArray, x) ELSE phaseArray
                   /\ drawLog' = Append(drawLog, <<what, i>>)
                   /\ stage' = IF full /\ stage < Len(DrawOrder) THEN stage + 1 ELSE stage
                   /\ pc' = IF full /\ stage = Len(DrawOrder) THEN "points" ELSE "u"
    /\ UNCHANGED <<runNo, args, uDraw, timeArray, samples, prevArgs,
                   prevSamples, rngVars, ptVars, randnVars, batchVars, riemVars, searchVars, panelVars>>

\* The final map over timeArray and the return
Points ==
    /\ pc = "points"
    /\ samples' = [i \in 1..Len(timeArray) |->
                      Point(timeArray[i], energieArray[i], phaseArray[i],
                            args.threshold, args.noise)]
    /\ pc' = "done"
    /\ UNCHANGED <<runNo, args, rng, stage, uDraw, timeArray, energieArray,
                   phaseArray, drawLog, prevArgs, prevSamples, rngVars, ptVars, randnVars, batchVars, riemVars, searchVars, panelVars>>

Init == RngIdle /\ RunIdle /\ PtIdle /\ RandnIdle /\ OthersIdle

Next ==
    \/ \E d \in Durations, n \in Noises, t \in Thresholds, s \in Seeds :
          Start(d, n, t, s)
    \/ DrawU
    \/ DrawV
    \/ Points

Spec == Init /\ [][Next]_vars

----------------------------------------------------------------------------
(* SpecPoint: the callback of the final map on one index, for raw values    *)
(* around the threshold and around the label limits                         *)

RawValues == {-4, 3, 4996, 5000, 5001, 5004, 5005, 7505, 7511, 9005, 9011}
PointThresholds == {-10000, 4996, 5000}
PointNoises == {15, 20, 25}

InitPoint ==
    /\ ptIn \in [t : {Dbl(FALSE, 2097152, 0, 55)}, rawEnergie : RawValues,
                 rawPhase : RawValues, threshold : PointThresholds,
                 noise : PointNoises]
    /\ ptOut = <<>>
    /\ RngIdle /\ RunIdle /\ RandnIdle /\ OthersIdle

MapPoint ==
    /\ ptOut = <<>>
    /\ ptOut' = <<Point(ptIn.t, ptIn.rawEnergie, ptIn.rawPhase,
                        ptIn.threshold, ptIn.noise)>>
    /\ UNCHANGED <<ptIn, rngVars, runVars, randnVars, batchVars, riemVars, searchVars, panelVars>>

NextPoint == MapPoint

SpecPoint == InitPoint /\ [][NextPoint]_vars

----------------------------------------------------------------------------
(* SpecRandn: one SeededRandom and a caller that calls randn on it          *)

\* Registers of interest: 8162280 is the first inexact one, the update of
\* 111692635 gives 0, and 2090002021 reaches 0 with its second update
RandnSeedLos == {8162280, 111692635, 2090002021}

RandnSeeds == {IntSeed(n) : n \in (1..MaxRandnSeed) \cup RandnSeedLos}

InitRandn ==
    /\ \E s \in RandnSeeds :
          rn = [seed |-> SeededRandom(s), pc |-> "idle", u |-> NoFloat,
                from |-> SeededRandom(s), draws |-> 0, zeros |-> 0, calls |-> 0]
    /\ RngIdle /\ RunIdle /\ PtIdle /\ OthersIdle

\* randn is entered:  let u = 0, v = 0
RandnEnter ==
    /\ rn.pc = "idle"
    /\ rn.calls < MaxCalls
    /\ rn' = [rn EXCEPT !.pc = "u", !.u = NoFloat, !.from = rn.seed,
                        !.draws = 0, !.zeros = 0]
    /\ UNCHANGED <<rngVars, runVars, ptVars, batchVars, riemVars, searchVars, panelVars>>

\* one pass of  while (u === 0) u = this.nextFloat()
RandnU ==
    /\ rn.pc = "u"
    /\ LET r == nextFloat(rn.seed)
       IN  rn' = [rn EXCEPT !.seed = r.seed, !.u = r.value,
                           !.draws = rn.draws + 1,
                           !.zeros = rn.zeros + (IF r.value.num = 0 THEN 1 ELSE 0),
                           !.pc = IF Redraw(r.value) THEN "u" ELSE "v"]
    /\ UNCHANGED <<rngVars, runVars, ptVars, batchVars, riemVars, searchVars, panelVars>>

\* one pass of  while (v === 0) v = this.nextFloat(); with v accepted the
\* value is computed and randn returns
RandnV ==
    /\ rn.pc = "v"
    /\ LET r == nextFloat(rn.seed)
       IN  rn' = [rn EXCEPT !.seed = r.seed,
                           !.draws = rn.draws + 1,
                           !.zeros = rn.zeros + (IF r.value.num = 0 THEN 1 ELSE 0),
                           !.pc = IF Redraw(r.value) THEN "v" ELSE "idle",
                           !.calls = IF Redraw(r.value) THEN rn.calls
                                     ELSE rn.calls + 1]
    /\ UNCHANGED <<rngVars, runVars, ptVars, batchVars, riemVars, searchVars, panelVars>>

NextRandn == RandnEnter \/ RandnU \/ RandnV

SpecRandn == InitRandn /\ [][NextRandn]_vars

----------------------------------------------------------------------------
(* SpecBatch: handleRunKnotFrequencyAnalysis.  The runs of the loop are      *)
(* represented by the nodes they return: stored times of [0, duration], in  *)
(* increasing order within a run                                            *)

BatchDurations == {10, 30, 200}         \* the duration slider: 10..200 by 10

\* Stored times (units of 10^-2) at and next to the segment limits
KnotenTimes(d) == {0, 10 * d - 1, 10 * d, 90 * d - 1, 90 * d, 100 * d - 1, 100 * d}

\* The elements of a set of times, in increasing order
RECURSIVE TimesInOrder(_)
TimesInOrder(ts) ==
    IF ts = {} THEN <<>>
    ELSE LET first == CHOOSE x \in ts : \A y \in ts : x <= y
         IN  <<first>> \o TimesInOrder(ts \ {first})

\* simData.filter(p => p.knoten !== undefined) of one run: at most `most`
\* nodes, in the order of their times
KnotenOfRun(d, most) ==
    {[k \in 1..Cardinality(ts) |-> [time |-> TimesInOrder(ts)[k], knoten |-> 1600]] :
        ts \in {x \in SUBSET KnotenTimes(d) : Cardinality(x) <= most}}

InitBatch == BatchIdle /\ RiemIdle /\ SearchIdle /\ PanelIdle /\ RngIdle /\ RunIdle /\ PtIdle /\ RandnIdle

\* The handler up to the loop
KnotFreqStart(n, d) ==
    /\ batch.pc = "idle"
    /\ batch' = [pc |-> "loop", numRuns |-> n, duration |-> d, i |-> 0,
                 allKnoten |-> <<>>, result |-> <<>>]
    /\ UNCHANGED <<rngVars, runVars, ptVars, randnVars, riemVars, searchVars, panelVars>>

\* One pass of the loop: the run's nodes are appended
KnotFreqRun(knoten) ==
    /\ batch.pc = "loop"
    /\ batch.i < batch.numRuns
    /\ batch' = [batch EXCEPT !.i = batch.i + 1,
                              !.allKnoten = batch.allKnoten \o knoten]
    /\ UNCHANGED <<rngVars, runVars, ptVars, randnVars, riemVars, searchVars, panelVars>>

\* After the loop: the result is computed and set
KnotFreqFinish ==
    /\ batch.pc = "loop"
    /\ batch.i >= batch.numRuns
    /\ batch' = [batch EXCEPT
          !.pc = "done",
          !.result = <<[totalRuns |-> batch.numRuns,
                        totalKnoten |-> Len(batch.allKnoten),
                        avgKnotenPerRun |->
                            AvgKnoten(Len(batch.allKnoten), batch.numRuns),
                        knotenDistribution |->
                            Distribution(batch.allKnoten, batch.duration)]>>]
    /\ UNCHANGED <<rngVars, runVars, ptVars, randnVars, riemVars, searchVars, panelVars>>

NextBatch ==
    \/ \E n \in 0..MaxBatchRuns, d \in BatchDurations : KnotFreqStart(n, d)
    \/ \E q \in KnotenOfRun(batch.duration, MaxKnoten - Len(batch.allKnoten)) :
          KnotFreqRun(q)
    \/ KnotFreqFinish

SpecBatch == InitBatch /\ [][NextBatch]_vars

----------------------------------------------------------------------------
(* SpecRiemann: handleRunRiemannAnalysis, its runs represented by the nodes *)
(* they return                                                              *)

RiemDurations == {10, 30}
RiemNoises == {0, 100}                  \* units of 10^-2
RiemThresholds == {0, 10, 5000}         \* units of 10^-4: 0, 0.001 and 0.5
RiemScalings == {1, 50}                 \* the scaling slider: 0.01..0.5
KnotenEnergies == {-500, 1600, 9500}    \* units of 10^-3

\* simData.filter(p => p.knoten !== undefined && ...) of one run: at most
\* `most` nodes, in the order of their times
RiemKnotenOfRun(d, most) ==
    UNION {{[k \in 1..Cardinality(ts) |->
                [time |-> TimesInOrder(ts)[k], energie |-> f[TimesInOrder(ts)[k]]]] :
              f \in [ts -> KnotenEnergies]} :
           ts \in {x \in SUBSET {0, 100 * d} : Cardinality(x) <= most}}

InitRiemann == RiemIdle /\ BatchIdle /\ SearchIdle /\ PanelIdle /\ RngIdle /\ RunIdle /\ PtIdle /\ RandnIdle

\* The handler up to the loop
RiemannStart(n, d, noise, threshold, scaling) ==
    /\ riem.pc = "idle"
    /\ riem' = [pc |-> "loop", numRuns |-> n, duration |-> d, noise |-> noise,
                threshold |-> threshold, scaling |-> scaling, i |-> 0, total |-> 0,
                allReSValues |-> <<>>, allSPlanePoints |-> <<>>,
                excessLog |-> <<>>, result |-> <<>>]
    /\ UNCHANGED <<rngVars, runVars, ptVars, randnVars, batchVars, searchVars, panelVars>>

\* One pass of the loop: Re(s) is computed for each node of the run.
\* excessLog records, for each node, its energy, the clamped relative
\* excess and whether the threshold was divided by
RiemannRun(knotenInRun) ==
    /\ riem.pc = "loop"
    /\ riem.i < riem.numRuns
    /\ LET points == [k \in 1..Len(knotenInRun) |->
                         SPlanePoint(knotenInRun[k], riem.threshold, riem.noise,
                                     riem.scaling)]
           log    == [k \in 1..Len(knotenInRun) |->
                         [energie |-> knotenInRun[k].energie,
                          excess  |-> ClampExcess(RelativeEnergyExcess(
                                          knotenInRun[k].energie, riem.threshold)),
                          divided |-> Divides(riem.threshold)]]
       IN  riem' = [riem EXCEPT
               !.i = riem.i + 1,
               !.total = riem.total + Len(knotenInRun),
               !.allReSValues = riem.allReSValues \o [k \in 1..Len(points) |-> points[k].re_s],
               !.allSPlanePoints = riem.allSPlanePoints \o points,
               !.excessLog = riem.excessLog \o log]
    /\ UNCHANGED <<rngVars, runVars, ptVars, randnVars, batchVars, searchVars, panelVars>>

\* After the loop: statistics, density grid, result
RiemannFinish ==
    /\ riem.pc = "loop"
    /\ riem.i >= riem.numRuns
    /\ LET meanReS   == calculateMean(riem.allReSValues)
           medianReS == calculateMedian(riem.allReSValues)
           stdDevReS == calculateStdDev(riem.allReSValues, meanReS)
           some      == Len(riem.allSPlanePoints) > 0
           indices   == BinIndices(riem.allSPlanePoints, riem.duration)
       IN  riem' = [riem EXCEPT
               !.pc = "done",
               !.result = <<[
                   totalRuns |-> riem.numRuns,
                   totalKnotenAnalyzed |-> riem.total,
                   reSValues |-> riem.allReSValues,
                   meanReS |-> RoundDiv(meanReS, 10),
                   medianReS |-> RoundDiv(medianReS, 10),
                   stdDevReS |-> RoundDiv(stdDevReS, 10),
                   sPlanePoints |-> riem.allSPlanePoints,
                   densityGrid |->
                       IF some THEN DensityGrid(indices)
                       ELSE <<>>,
                   densityGridConfig |->
                       IF some
                       THEN <<[reBins |-> DENSITY_RE_BINS, imBins |-> DENSITY_IM_BINS,
                               maxDensity |-> MaxDensity(indices),
                               simDuration |-> riem.duration]>>
                       ELSE <<>>]>>]
    /\ UNCHANGED <<rngVars, runVars, ptVars, randnVars, batchVars, searchVars, panelVars>>

NextRiemann ==
    \/ \E n \in 0..MaxBatchRuns, d \in RiemDurations, noise \in RiemNoises,
          threshold \in RiemThresholds, scaling \in RiemScalings :
          RiemannStart(n, d, noise, threshold, scaling)
    \/ \E q \in RiemKnotenOfRun(riem.duration, MaxKnoten - riem.total) :
          RiemannRun(q)
    \/ RiemannFinish

SpecRiemann == InitRiemann /\ [][NextRiemann]_vars

----------------------------------------------------------------------------
(* SpecAnalysis: the StatisticalAnalysis component with both handlers.     *)
(* numRuns is one state of the component and the duration one of its       *)
(* props, read by both handlers; both buttons are disabled while either    *)
(* analysis is loading                                                      *)

AnalysisDurations == {10, 30}
AnalysisNoises == {0, 100}
AnalysisThresholds == {10, 5000}
AnalysisScalings == {50}

\* disabled={knotFreqIsLoading || riemannIsLoading}
ButtonsEnabled == batch.pc # "loop" /\ riem.pc # "loop"

\* numRuns and currentDuration are the ones the other handler has read
SameProps(n, d) ==
    /\ batch.pc # "idle" => (n = batch.numRuns /\ d = batch.duration)
    /\ riem.pc # "idle" => (n = riem.numRuns /\ d = riem.duration)

InitAnalysis == InitBatch

NextAnalysis ==
    \/ \E n \in 0..MaxAnalysisRuns, d \in AnalysisDurations :
          ButtonsEnabled /\ SameProps(n, d) /\ KnotFreqStart(n, d)
    \/ \E q \in KnotenOfRun(batch.duration, MaxAnalysisRuns - Len(batch.allKnoten)) :
          KnotFreqRun(q)
    \/ KnotFreqFinish
    \/ \E n \in 0..MaxAnalysisRuns, d \in AnalysisDurations, noise \in AnalysisNoises,
           threshold \in AnalysisThresholds, scaling \in AnalysisScalings :
          ButtonsEnabled /\ SameProps(n, d) /\ RiemannStart(n, d, noise, threshold, scaling)
    \/ \E q \in RiemKnotenOfRun(riem.duration, MaxAnalysisRuns - riem.total) :
          RiemannRun(q)
    \/ RiemannFinish

SpecAnalysis == InitAnalysis /\ [][NextAnalysis]_vars

----------------------------------------------------------------------------
(* SpecSearch: App with its SubQGInteractive.  An event handler runs when  *)
(* no render is pending; Commit is one render with the effects it flushes, *)
(* the child's before the parent's, and the state updates they queue       *)

InitSearch ==
    /\ \E seed \in SearchSeeds, sim \in Sims :
          search = AppInitial(seed, sim)
    /\ BatchIdle /\ RiemIdle /\ PanelIdle /\ RngIdle /\ RunIdle /\ PtIdle /\ RandnIdle

\* handleStartSearch; the button is disabled={isSearching}
HandleStartSearch(initialNoise, initialThreshold, initialSeed) ==
    /\ search.pc = "idle"
    /\ ~Disabled(search)
    /\ search' = [search EXCEPT
          !.noise = initialNoise,
          !.threshold = initialThreshold,
          !.currentSeed = initialSeed,
          !.currentSearchAttempt = 1,
          !.isSearching = TRUE,
          !.knotenCountFromSim = -1,
          !.pc = "render",
          !.draws = 1,
          !.reported = <<>>]
    /\ UNCHANGED <<rngVars, runVars, ptVars, randnVars, batchVars, riemVars, panelVars>>

\* onChange of the duration slider
SetDuration(value) ==
    /\ search.pc = "idle"
    /\ ~Disabled(search)
    /\ value # search.duration
    /\ search' = [search EXCEPT !.duration = value, !.pc = "render"]
    /\ UNCHANGED <<rngVars, runVars, ptVars, randnVars, batchVars, riemVars, panelVars>>

\* onChange of the noise slider
SetNoise(value) ==
    /\ search.pc = "idle"
    /\ ~Disabled(search)
    /\ value # search.noise
    /\ search' = [search EXCEPT !.noise = value, !.pc = "render"]
    /\ UNCHANGED <<rngVars, runVars, ptVars, randnVars, batchVars, riemVars, panelVars>>

\* onChange of the threshold slider
SetThreshold(value) ==
    /\ search.pc = "idle"
    /\ ~Disabled(search)
    /\ value # search.threshold
    /\ search' = [search EXCEPT !.threshold = value, !.pc = "render"]
    /\ UNCHANGED <<rngVars, runVars, ptVars, randnVars, batchVars, riemVars, panelVars>>

\* One render and its effects.  simulationData is recomputed if a prop
\* differs from the stored dependencies, and only then the child's effect
\* calls onKnotenUpdate; the search effect runs if one of its dependencies
\* has changed, on the state of this render.  The updates are applied in
\* the order they were queued; another render follows if a state changed
Commit(newNoise, newThreshold, newSeed) ==
    /\ search.pc = "render"
    /\ LET recompute == search.memoDeps # Props(search)
           knoten    == IF recompute THEN search.sim[Props(search)] ELSE search.knoten
           runs      == search.effectDeps # EffectDeps(search)
           effect    == IF runs THEN SearchEffect(search, newNoise, newThreshold, newSeed)
                        ELSE search
           count     == IF effect.knotenCountFromSim # search.knotenCountFromSim
                        THEN effect.knotenCountFromSim
                        ELSE IF recompute THEN knoten
                        ELSE search.knotenCountFromSim
           next      == [effect EXCEPT
                            !.knotenCountFromSim = count,
                            !.memoDeps = Props(search),
                            !.knoten = knoten,
                            !.effectDeps = EffectDeps(search),
                            !.reported = IF recompute /\ search.isSearching
                                         THEN Append(search.reported, knoten)
                                         ELSE search.reported]
       IN  search' = [next EXCEPT
               !.pc = IF AppState(next) # AppState(search) THEN "render" ELSE "idle"]
    /\ UNCHANGED <<rngVars, runVars, ptVars, randnVars, batchVars, riemVars, panelVars>>

NextSearch ==
    \/ \E n \in SearchNoises, t \in SearchThresholds, s \in SearchSeeds :
          HandleStartSearch(n, t, s)
    \/ \E d \in SearchDurations : SetDuration(d)
    \/ \E n \in SliderNoises : SetNoise(n)
    \/ \E t \in SliderThresholds : SetThreshold(t)
    \/ \E n \in SearchNoises, t \in SearchThresholds, s \in SearchSeeds :
          Commit(n, t, s)

SpecSearch == InitSearch /\ [][NextSearch]_vars

\* Every pending render is carried out
SpecSearchLive ==
    SpecSearch
    /\ WF_vars(\E n \in SearchNoises, t \in SearchThresholds, s \in SearchSeeds :
                   Commit(n, t, s))

----------------------------------------------------------------------------
(* SpecPanel: the StatisticalAnalysis component as a whole, with its props, *)
(* its state and the running calls of its two asynchronous handlers.  One   *)
(* step of a handler is the code between two of its awaits; the props and   *)
(* the state change only between such steps.  Of a result the fields that   *)
(* name the run count and the parameters are kept; the aggregates are those *)
(* of SpecBatch and SpecRiemann                                             *)

\* The props App passes: duration, noise (10^-2), threshold (10^-1)
PanelProps == SearchDurations \X SliderNoises \X {15}
\* The run count slider: 10..500 by 10
RunCounts == {10, 20}
\* The scaling slider: 0.01..0.5 by 0.01, in units of 10^-2
Scalings == {10, 50}

\* disabled=... of the run count slider and the button of the node frequency
\* section
KnotFreqDisabled(p) == p.knotFreqIsLoading \/ p.riemannIsLoading

\* A plausible slip: each section looks at its own flag only
RiemannDisabledOwn(p) == p.riemannIsLoading

\* disabled=... of the run count slider, the scaling slider and the button of
\* the Riemann section
RiemannDisabled(p) == p.riemannIsLoading \/ p.knotFreqIsLoading

\* What handleRunKnotFrequencyAnalysis of the last render has closed over
KnotFreqHandler(p) ==
    [numRuns |-> p.numRuns, duration |-> p.props[1], noise |-> p.props[2],
     threshold |-> p.props[3]]

\* What handleRunRiemannAnalysis of the last render has closed over
RiemannHandler(p) ==
    [numRuns |-> p.numRuns, duration |-> p.props[1], noise |-> p.props[2],
     threshold |-> p.props[3], riemannScalingFactor |-> p.riemannScalingFactor]

\* A plausible slip: the loop reads the values of the last render (a ref)
RunArgsLive(p, closure) == p.props

\* The arguments of calculateSimulationData in a run of the loop
RunArgs(p, closure) == <<closure.duration, closure.noise, closure.threshold>>

\* if (i % Math.floor(numRuns/10) === 0 || i === numRuns - 1): the remainder
\* by 0 is NaN
YieldsAfter(i, n) == (n \div 10 # 0 /\ i % (n \div 10) = 0) \/ i = n - 1

\* The index, from i < n on, of the first run that is followed by an await
RECURSIVE SliceEnd(_, _)
SliceEnd(i, n) == IF YieldsAfter(i, n) THEN i ELSE SliceEnd(i + 1, n)

\* The runs from the call's position to the next await
Slice(p, call) ==
    LET n == call.closure.numRuns
        last == SliceEnd(call.i, n)
    IN  [call EXCEPT !.i = last + 1,
                     !.used = call.used \o
                              [k \in 1..(last + 1 - call.i) |-> RunArgs(p, call.closure)]]

\* App renders with other values of duration, noise or threshold
SetProps(d, noise, threshold) ==
    /\ panel.props # <<d, noise, threshold>>
    /\ panel' = [panel EXCEPT !.props = <<d, noise, threshold>>]
    /\ UNCHANGED <<rngVars, runVars, ptVars, randnVars, batchVars, riemVars, searchVars>>

SetNumRuns(n) ==
    /\ ~KnotFreqDisabled(panel)
    /\ n # panel.numRuns
    /\ panel' = [panel EXCEPT !.numRuns = n]
    /\ UNCHANGED <<rngVars, runVars, ptVars, randnVars, batchVars, riemVars, searchVars>>

SetRiemannScalingFactor(s) ==
    /\ ~RiemannDisabled(panel)
    /\ s # panel.riemannScalingFactor
    /\ panel' = [panel EXCEPT !.riemannScalingFactor = s]
    /\ UNCHANGED <<rngVars, runVars, ptVars, randnVars, batchVars, riemVars, searchVars>>

\* The handler up to its first await
HandleRunKnotFrequencyAnalysis ==
    /\ ~KnotFreqDisabled(panel)
    /\ panel' = [panel EXCEPT
          !.knotFreqIsLoading = TRUE,
          !.knotFreqAnalysisResult = <<>>,
          !.knotFreq = [pc |-> "await", closure |-> KnotFreqHandler(panel),
                        i |-> 0, used |-> <<>>]]
    /\ UNCHANGED <<rngVars, runVars, ptVars, randnVars, batchVars, riemVars, searchVars>>

\* A timer of the handler fires: it goes on to its next await or to its end
KnotFreqResume ==
    /\ panel.knotFreq.pc = "await"
    /\ LET call == panel.knotFreq
           own == call.closure
       IN  IF call.i < own.numRuns
           THEN panel' = [panel EXCEPT !.knotFreq = Slice(panel, call)]
           ELSE panel' = [panel EXCEPT
                   !.knotFreq.pc = "idle",
                   !.knotFreqAnalysisResult =
                       <<[totalRuns |-> own.numRuns,
                          parameters |-> [duration |-> own.duration,
                                          noise |-> own.noise,
                                          threshold |-> own.threshold]]>>,
                   !.knotFreqIsLoading = FALSE]
    /\ UNCHANGED <<rngVars, runVars, ptVars, randnVars, batchVars, riemVars, searchVars>>

\* The handler up to its first await
HandleRunRiemannAnalysis ==
    /\ ~RiemannDisabled(panel)
    /\ panel' = [panel EXCEPT
          !.riemannIsLoading = TRUE,
          !.riemannAnalysisResult = <<>>,
          !.riemann = [pc |-> "await", closure |-> RiemannHandler(panel),
                       i |-> 0, used |-> <<>>]]
    /\ UNCHANGED <<rngVars, runVars, ptVars, randnVars, batchVars, riemVars, searchVars>>

\* A timer of the handler fires: it goes on to its next await or to its end
RiemannResume ==
    /\ panel.riemann.pc = "await"
    /\ LET call == panel.riemann
           own == call.closure
       IN  IF call.i < own.numRuns
           THEN panel' = [panel EXCEPT !.riemann = Slice(panel, call)]
           ELSE panel' = [panel EXCEPT
                   !.riemann.pc = "idle",
                   !.riemannAnalysisResult =
                       <<[totalRuns |-> own.numRuns,
                          parameters |-> [duration |-> own.duration,
                                          noise |-> own.noise,
                                          threshold |-> own.threshold,
                                          riemannScalingFactor |->
                                              own.riemannScalingFactor]]>>,
                   !.riemannIsLoading = FALSE]
    /\ UNCHANGED <<rngVars, runVars, ptVars, randnVars, batchVars, riemVars, searchVars>>

InitPanel ==
    /\ PanelIdle
    /\ BatchIdle /\ RiemIdle /\ SearchIdle /\ RngIdle /\ RunIdle /\ PtIdle /\ RandnIdle

NextPanel ==
    \/ \E p \in PanelProps : SetProps(p[1], p[2], p[3])
    \/ \E n \in RunCounts : SetNumRuns(n)
    \/ \E s \in Scalings : SetRiemannScalingFactor(s)
    \/ HandleRunKnotFrequencyAnalysis
    \/ KnotFreqResume
    \/ HandleRunRiemannAnalysis
    \/ RiemannResume

SpecPanel == InitPanel /\ [][NextPanel]_vars

\* Every timer a handler waits for fires
SpecPanelLive == SpecPanel /\ WF_vars(KnotFreqResume) /\ WF_vars(RiemannResume)

----------------------------------------------------------------------------
(* Claims about calculateSimulationData (Spec) *)

\* C1: two runs with the same duration, noise factor, threshold and seed,
\* each on a SeededRandom newly constructed from that seed, return the same
\* sample sequence (same length, same fields at every index).
C1_Determinism ==
    (runNo >= 2 /\ pc = "done" /\ prevArgs = args) => samples = prevSamples

\* a second run with noise has repeated the first one's arguments
C1_Witness ==
    /\ runNo = 2 /\ pc = "done" /\ prevArgs = args
    /\ args.noise > 0
    /\ Len(samples) >= 10 /\ samples = prevSamples

\* C5: for every duration (those <= 0.1 included) the run returns
\* max(10, floor(duration * 100)) samples; the first stored time is 0 and
\* the last one is the duration rounded to 2 decimals.
C5_SampleCountAndSpan ==
    pc = "done" =>
        LET n100  == DFloor([args.duration EXCEPT
                               !.w = WideMulSmall(args.duration.w, 100)])
            steps == IF n100 >= 10 THEN n100 ELSE 10
        IN  /\ Len(samples) = steps
            /\ samples[1].time = 0
            /\ samples[steps].time = DFixed2(args.duration)

Positive(x) == ~x.neg /\ ~DIsZero(x)

OneTenth == Dbl(FALSE, 3355443, 429496730, 56)      \* the double 0.1

TimeStep(i) == samples[i + 1].time - samples[i].time

\* C6 as stated: for every duration > 0 the stored times are strictly
\* increasing and every two consecutive ones differ by the same constant.
C6_UniformStoredTimesAsStated ==
    (pc = "done" /\ Positive(args.duration)) =>
        \A i \in 1..(Len(samples) - 1) : TimeStep(i) > 0 /\ TimeStep(i) = TimeStep(1)

\* C6 (amended): for every duration > 0 the stored times never decrease,
\* two steps between consecutive stored times differ by at most 0.01 (the
\* rounding unit), and the stored times are strictly increasing when
\* duration >= 0.1.
C6_StoredTimes ==
    (pc = "done" /\ Positive(args.duration)) =>
        /\ \A i \in 1..(Len(samples) - 1) :
              /\ TimeStep(i) >= 0
              /\ ~DLess(args.duration, OneTenth) => TimeStep(i) > 0
        /\ \A i, j \in 1..(Len(samples) - 1) : TimeStep(i) - TimeStep(j) <= 1

\* a run of duration 0.125 has stored steps of 0.01 and of 0.02
C6_Witness ==
    /\ pc = "done" /\ args.duration = Dbl(FALSE, 2097152, 0, 55)
    /\ \E i, j \in 1..(Len(samples) - 1) : TimeStep(i) = 1 /\ TimeStep(j) = 2

\* C7: the energy variate of each sample time is drawn before the phase
\* variate of the same time, and within each of the two arrays the draws go
\* by increasing time; a finished run has drawn both for every time.
C7_DrawOrder ==
    /\ \A k \in 1..Len(drawLog) :
          /\ drawLog[k][1] = "phase" =>
                \E j \in 1..(k - 1) : drawLog[j] = <<"energie", drawLog[k][2]>>
          /\ \A j \in 1..(k - 1) :
                drawLog[j][1] = drawLog[k][1] => drawLog[j][2] < drawLog[k][2]
    /\ pc = "done" =>
          \A i \in 1..Len(timeArray) :
              \E j, k \in 1..Len(drawLog) :
                  drawLog[j] = <<"energie", i>> /\ drawLog[k] = <<"phase", i>>

\* a run of 12 samples has made its 24 draws
C7_Witness ==
    /\ pc = "done" /\ Len(samples) = 12
    /\ Len(drawLog) = 24
    /\ drawLog[12] = <<"energie", 12>> /\ drawLog[13] = <<"phase", 1>>

----------------------------------------------------------------------------
(* Claims about the node rule (SpecPoint) *)

HasKnoten(point) == "knoten" \in DOMAIN point

\* C2: the sample carries a node iff both raw values exceed the threshold
\* strictly and the two 3-decimal roundings are equal.
C2_KnotenIff ==
    ptOut # <<>> =>
        (HasKnoten(ptOut[1]) <=>
            /\ ptIn.rawEnergie > ptIn.threshold
            /\ ptIn.rawPhase > ptIn.threshold
            /\ RoundDiv(ptIn.rawEnergie, 10) = RoundDiv(ptIn.rawPhase, 10))

\* a node whose raw values differ and round to the same display value
C2_Witness ==
    /\ ptOut # <<>> /\ HasKnoten(ptOut[1])
    /\ ptIn.rawEnergie = 5001 /\ ptIn.rawPhase = 5004 /\ ptIn.threshold = 5000

\* C3: the node value of a node equals its energy field and its phase field.
C3_KnotenValue ==
    (ptOut # <<>> /\ HasKnoten(ptOut[1])) =>
        /\ ptOut[1].knoten = ptOut[1].energie
        /\ ptOut[1].knoten = ptOut[1].phase
        /\ ptOut[1].energie = RoundDiv(ptIn.rawEnergie, 10)

\* a node of value 0.751
C3_Witness ==
    /\ ptOut # <<>> /\ HasKnoten(ptOut[1])
    /\ ptIn.rawEnergie = 7511 /\ ptIn.rawPhase = 7505
    /\ ptOut[1].knoten = 751

\* C4: a sample has a label iff it is a node, and the label is that of the
\* first rule that applies: e3 > 1.8 * threshold and noise < 0.25; then
\* e3 > 1.5 * threshold; then noise < 0.2; then the standard label.
C4_Characteristic ==
    ptOut # <<>> =>
        LET point == ptOut[1]
            e3 == point.energie
            rule1 == e3 * 100 > 18 * ptIn.threshold /\ ptIn.noise < 25
            rule2 == e3 * 100 > 15 * ptIn.threshold
            rule3 == ptIn.noise < 20
        IN  /\ "characteristic" \in DOMAIN point <=> HasKnoten(point)
            /\ HasKnoten(point) =>
                  /\ rule1 => point.characteristic = "Starker Hochenergie-Knoten (Niedrigrauschen)"
                  /\ (~rule1 /\ rule2) => point.characteristic = "Hochenergie-Knoten"
                  /\ (~rule1 /\ ~rule2 /\ rule3) => point.characteristic = "Niedrigrauschen-Knoten"
                  /\ (~rule1 /\ ~rule2 /\ ~rule3) => point.characteristic = "Standard-Resonanzknoten"

\* a node for which the second and the third rule both apply
C4_Witness ==
    /\ ptOut # <<>> /\ HasKnoten(ptOut[1])
    /\ ptIn.noise = 15 /\ ptIn.threshold = 5000 /\ ptOut[1].energie = 751
    /\ ptOut[1].characteristic = "Hochenergie-Knoten"

----------------------------------------------------------------------------
(* Claims about the generator (SpecRng) *)

Last(q) == q[Len(q)]

IsZero(s) == s.hi = 0 /\ s.lo = 0 /\ ~s.half

\* s and t denote the same number (-0 and 0 are the same number)
SameNumber(s, t) == s = t \/ (IsZero(s) /\ IsZero(t))

\* the number s + 2^31
SeedPlusM(s) ==
    IF ~s.neg \/ IsZero(s) THEN SeedNum(FALSE, s.hi + 1, s.lo, s.half)
    ELSE IF s.hi >= 1 THEN SeedNum(TRUE, s.hi - 1, s.lo, s.half)
    ELSE IF s.half THEN SeedNum(FALSE, 0, 2147483647 - s.lo, TRUE)
    ELSE SeedNum(FALSE, 0, (2147483647 - s.lo) + 1, FALSE)

Negation(s, t) == SameNumber(t, [s EXCEPT !.neg = ~s.neg])
FloorOfAbs(s, t) == SameNumber(t, SeedNum(FALSE, s.hi, s.lo, FALSE))
ShiftByM(s, t) == SameNumber(t, SeedPlusM(s))
ZeroAndOne(s, t) == IsZero(s) /\ t = IntSeed(1)

\* floor(|s|) mod 2^31, with 1 in place of 0
NormalForm(s) == IF s.lo = 0 THEN 1 ELSE s.lo

InitialRegisterNormal ==
    \A g \in Gen :
        gens[g].out = <<>> =>
            /\ gens[g].seed = NormalForm(gens[g].arg)
            /\ gens[g].seed \in 1..2147483647

\* two instances that have made the same number of draws are in the same
\* state and have returned the same values
SameGenerator(g, h) ==
    Len(gens[g].out) = Len(gens[h].out) =>
        gens[g].seed = gens[h].seed /\ gens[g].out = gens[h].out

\* C8 as stated: the initial register is floor(|s|) mod 2^31 with 0 replaced
\* by 1, lies in [1, 2^31 - 1], and the seed pairs (s, -s), (s, floor|s|),
\* (s, s + 2^31) for every s, and (0, 1) give identical generators.
C8_SeedNormalizationAsStated ==
    /\ InitialRegisterNormal
    /\ \A g, h \in Gen :
          (\/ Negation(gens[g].arg, gens[h].arg)
           \/ FloorOfAbs(gens[g].arg, gens[h].arg)
           \/ ShiftByM(gens[g].arg, gens[h].arg)
           \/ ZeroAndOne(gens[g].arg, gens[h].arg)) => SameGenerator(g, h)

\* C8 (amended): as stated, but s and s + 2^31 give identical generators
\* only when they are not of opposite sign, i.e. s >= 0 or s <= -2^31.
C8_SeedNormalization ==
    /\ InitialRegisterNormal
    /\ \A g, h \in Gen :
          (\/ Negation(gens[g].arg, gens[h].arg)
           \/ FloorOfAbs(gens[g].arg, gens[h].arg)
           \/ /\ ShiftByM(gens[g].arg, gens[h].arg)
              /\ (~gens[g].arg.neg \/ gens[g].arg.hi >= 1 \/ IsZero(gens[g].arg))
           \/ ZeroAndOne(gens[g].arg, gens[h].arg)) => SameGenerator(g, h)

\* -5.5 and 2^31 + 5 have produced the same two values
C8_Witness ==
    /\ gens[1].arg = SeedNum(TRUE, 0, 5, TRUE)
    /\ gens[2].arg = SeedNum(FALSE, 1, 5, FALSE)
    /\ Len(gens[1].out) = 2
    /\ gens[1].out = gens[2].out

\* (a * r + c) mod 2^31 in exact integer arithmetic
ExactLcg(r) == ModM(WideAdd(WideMul(a, r), c))

\* C9: every uniform draw sets the register to exactly
\* (1103515245 * register + 12345) mod 2^31 and returns a value derived from
\* the updated register.
C9_ExactUpdate ==
    \A g \in Gen :
        gens[g].out # <<>> =>
            /\ gens[g].seed = ExactLcg(gens[g].from)
            /\ Last(gens[g].out).num = gens[g].seed

\* num / 2^exp lies in [0, 1): num < 2^exp, halved on both sides to stay
\* within the checker's integers
InUnitInterval(v) == v.num >= 0 /\ v.exp >= 1 /\ v.num \div 2 < Pow2(v.exp - 1)

\* C10: the register is always an integer in [0, 2^31 - 1], and every
\* nextFloat returns the updated register divided by 2^31, a value in [0, 1).
C10_RegisterAndFloatRange ==
    \A g \in Gen :
        /\ gens[g].seed \in 0..2147483647
        /\ gens[g].out # <<>> =>
              /\ Last(gens[g].out) = [num |-> gens[g].seed, exp |-> 31]
              /\ InUnitInterval(Last(gens[g].out))

\* a generator whose register has left the exactly representable range has
\* returned three values
C10_Witness ==
    /\ Len(gens[1].out) = 3
    /\ gens[1].from > 8162280
    /\ gens[1].seed # gens[1].from

----------------------------------------------------------------------------
(* Claims about randn (SpecRandn) *)

\* the register after k updates of r
RECURSIVE Updates(_, _)
Updates(r, k) == IF k = 0 THEN r ELSE Updates(nextInt(r), k - 1)

Returned == rn.pc = "idle" /\ rn.calls >= 1

\* C11 as stated: every call of randn makes exactly two uniform draws.
C11_TwoDrawsAsStated == Returned => rn.draws = 2

\* C11 (amended): a call of randn makes two uniform draws and one more for
\* every draw that returned 0; the register moves once per draw, and a call
\* starts from the register the previous call left, with nothing kept of the
\* previous call's values.
C11_DrawsPerCall ==
    /\ Returned =>
          /\ rn.draws = 2 + rn.zeros
          /\ rn.seed = Updates(rn.from, rn.draws)
    /\ rn.pc = "u" /\ rn.draws = 0 => rn.u = NoFloat /\ rn.from = rn.seed

\* a call that drew 0 for u has returned after three draws
C11_Witness ==
    /\ Returned /\ rn.from = 111692635
    /\ rn.draws = 3 /\ rn.zeros = 1 /\ rn.seed = Updates(12345, 1)

----------------------------------------------------------------------------
(* Claims about the node frequency analysis (SpecBatch) *)

RECURSIVE SumSeq(_)
SumSeq(q) == IF q = <<>> THEN 0 ELSE q[1] + SumSeq(Tail(q))

BatchDone == batch.pc = "done"

\* C12: every node collected over the runs is counted in exactly one of the
\* 10 segments, the one of index min(floor(time / (duration / 10)), 9),
\* which lies in 0..9; the counts add up to the total number of nodes.
C12_HistogramConservation ==
    BatchDone =>
        LET r == batch.result[1]
        IN  /\ \A j \in 1..Len(batch.allKnoten) :
                  SegmentIndex(batch.allKnoten[j].time, batch.duration) \in 0..9
            /\ Len(r.knotenDistribution) = 10
            /\ SumSeq(r.knotenDistribution) = r.totalKnoten
            /\ r.totalKnoten = Len(batch.allKnoten)

\* three nodes, one of them at time = duration, counted in the last segment
C12_Witness ==
    /\ BatchDone /\ batch.duration = 30
    /\ batch.result[1].totalKnoten = 3
    /\ \E j \in 1..3 : batch.allKnoten[j].time = 3000
    /\ batch.result[1].knotenDistribution[10] >= 1

----------------------------------------------------------------------------
(* Claims about the Riemann analysis (SpecRiemann) *)

RiemDone == riem.pc = "done"

Clamp(x, lo, hi) == IF x < lo THEN lo ELSE IF x > hi THEN hi ELSE x

\* C14 as stated: for every node, relativeExcess is
\* clamp((max(energy, threshold) - threshold) / threshold, 0, 5) when
\* threshold > 0.001 and otherwise 2 * energy for energy > 0, else 0 (not
\* clamped); the scalar is clamp(0.5 + (relativeExcess - noise) *
\* scalingFactor, 0, 1).
C14_ScalarFormulaAsStated ==
    \A k \in 1..Len(riem.excessLog) :
        LET e    == riem.excessLog[k].energie * 10
            th   == riem.threshold
            rel  == IF th > 10
                    THEN Clamp(RoundDiv(((IF e > th THEN e ELSE th) - th) * 10000, th),
                               0, 50000)
                    ELSE IF e > 0 THEN 2 * e ELSE 0
        IN  riem.allReSValues[k] =
                Clamp(5000 + RoundDiv((rel - riem.noise * 100) * riem.scaling, 100),
                      0, 10000)

\* C14 (amended): as stated, with the relative excess clamped into [0, 5]
\* in both cases, also when threshold <= 0.001: for every node, relativeExcess is
\* clamp((max(energy, threshold) - threshold) / threshold, 0, 5) when
\* threshold > 0.001 and otherwise 2 * energy for energy > 0, else 0; the
\* scalar is clamp(0.5 + (relativeExcess - noise) * scalingFactor, 0, 1).
C14_ScalarFormula ==
    \A k \in 1..Len(riem.excessLog) :
        LET e    == riem.excessLog[k].energie * 10
            th   == riem.threshold
            rel  == IF th > 10
                    THEN Clamp(RoundDiv(((IF e > th THEN e ELSE th) - th) * 10000, th),
                               0, 50000)
                    ELSE IF e > 0 THEN Clamp(2 * e, 0, 50000) ELSE 0
        IN  /\ riem.excessLog[k].excess = rel
            /\ riem.allReSValues[k] =
                   Clamp(5000 + RoundDiv((rel - riem.noise * 100) * riem.scaling, 100),
                         0, 10000)

\* with threshold 0.001 an energy of 9.5 has the relative excess 5, not 19,
\* and the scalar 0.55; with threshold 0.5 its scalar is clamped to 1
C14_Witness ==
    \/ /\ Len(riem.excessLog) = 1 /\ riem.threshold = 10
       /\ riem.noise = 0 /\ riem.scaling = 1
       /\ riem.excessLog[1].energie = 9500 /\ riem.excessLog[1].excess = 50000
       /\ riem.allReSValues[1] = 5500
    \/ /\ Len(riem.excessLog) = 1 /\ riem.threshold = 5000
       /\ riem.noise = 0 /\ riem.scaling = 50
       /\ riem.excessLog[1].energie = 9500 /\ riem.allReSValues[1] = 10000

\* C15: for every threshold (those <= 0.001 included), noise factor,
\* scaling factor and node energy, every scalar lies in [0, 1], the relative
\* excess it is computed from lies in [0, 5], and the threshold is divided
\* by only when it exceeds 0.001.
C15_ScalarRange ==
    \A k \in 1..Len(riem.excessLog) :
        /\ riem.excessLog[k].excess \in 0..50000
        /\ riem.allReSValues[k] \in 0..10000
        /\ riem.allSPlanePoints[k].re_s = riem.allReSValues[k]
        /\ riem.excessLog[k].divided => riem.threshold > 10

\* nodes at threshold 0.001, none divided by it, one with relative excess 5
C15_Witness ==
    /\ riem.threshold = 10 /\ Len(riem.excessLog) = 3
    /\ \A k \in 1..3 : ~riem.excessLog[k].divided
    /\ \E k \in 1..3 : riem.excessLog[k].excess = 50000
    /\ \E k \in 1..3 : riem.excessLog[k].energie < 0 /\ riem.excessLog[k].excess = 0

\* C16: calculateStdDev returns 0 for data of length <= 1 and, for n >= 2
\* values, the sample standard deviation sqrt(sum((x_i - mean)^2) / (n - 1)).
C16_StdDev ==
    RiemDone =>
        LET data == riem.result[1].reSValues
            n    == Len(data)
            mean == IF n = 0 THEN 0 ELSE RoundDiv(SumSeq(data), n)
            ss   == SumSeq([k \in 1..n |-> (data[k] - mean) * (data[k] - mean)])
        IN  riem.result[1].stdDevReS =
                IF n <= 1 THEN 0 ELSE RoundDiv(Sqrt(ss \div (n - 1)), 10)

\* the values 0 and 1 have the standard deviation 0.707
C16_Witness ==
    /\ RiemDone
    /\ riem.result[1].reSValues \in {<<0, 10000>>, <<10000, 0>>}
    /\ riem.result[1].stdDevReS = 707

\* a single value has the standard deviation 0
C16_WitnessSingle ==
    /\ RiemDone
    /\ riem.result[1].reSValues = <<10000>>
    /\ riem.result[1].stdDevReS = 0

\* C17: each analysed node is counted in exactly one cell of the 20 x 20
\* grid, with both indices in 0..19 (Re(s) = 1 and time = duration in the
\* last row and column); the result lists exactly the cells with a count
\* above 0, so the listed counts add up to the number of analysed nodes,
\* and maxDensity is the largest listed count.
C17_DensityGrid ==
    RiemDone =>
        LET r     == riem.result[1]
            grid  == r.densityGrid
            pts   == r.sPlanePoints
            at    == [k \in 1..Len(pts) |->
                         <<ReBinIndex(pts[k].re_s),
                           ImBinIndex(pts[k].im_s, riem.duration)>>]
        IN  /\ Len(at) = Len(pts)
            /\ \A k \in 1..Len(pts) :
                  /\ at[k][1] \in 0..19 /\ at[k][2] \in 0..19
                  /\ pts[k].re_s = 10000 => at[k][1] = 19
                  /\ pts[k].im_s = 100 * riem.duration => at[k][2] = 19
                  /\ Cardinality({cell \in 1..Len(grid) :
                                     <<grid[cell].i, grid[cell].j>> = at[k]}) = 1
            /\ \A cell \in 1..Len(grid) :
                  /\ grid[cell].density > 0
                  /\ grid[cell].density =
                         Cardinality({k \in 1..Len(pts) :
                                         <<grid[cell].i, grid[cell].j>> = at[k]})
            /\ SumSeq([cell \in 1..Len(grid) |-> grid[cell].density]) = r.totalKnotenAnalyzed
            /\ r.totalKnotenAnalyzed = Len(pts)
            /\ Len(pts) > 0 =>
                  /\ r.densityGridConfig # <<>>
                  /\ \E cell \in 1..Len(grid) :
                        grid[cell].density = r.densityGridConfig[1].maxDensity
                  /\ \A cell \in 1..Len(grid) :
                        grid[cell].density <= r.densityGridConfig[1].maxDensity

\* three nodes in two cells, two of them in the last row and column
C17_Witness ==
    /\ RiemDone
    /\ riem.result[1].totalKnotenAnalyzed = 3
    /\ Len(riem.result[1].densityGrid) = 2
    /\ riem.result[1].densityGridConfig[1].maxDensity = 2
    /\ \E cell \in 1..2 : riem.result[1].densityGrid[cell] = [i |-> 19, j |-> 19, density |-> 2]

----------------------------------------------------------------------------
(* Claims about the two analyses together (SpecAnalysis) *)

Zeros(n) == [k \in 1..n |-> 0]

\* C13: with numRuns = 0 both analyses finish: the node frequency analysis
\* reports 0 nodes, the average 0 per run and 0 in each of its 10 segments;
\* the Riemann analysis reports 0 nodes, mean = median = standard deviation
\* = 0 and no cell of the density grid.  No quotient is taken with the
\* divisor 0.
C13_EmptyBatch ==
    /\ (batch.pc = "loop" /\ batch.numRuns = 0) => ENABLED KnotFreqFinish
    /\ (riem.pc = "loop" /\ riem.numRuns = 0) => ENABLED RiemannFinish
    /\ (BatchDone /\ batch.numRuns = 0) =>
           /\ batch.result[1].totalKnoten = 0
           /\ batch.result[1].avgKnotenPerRun = 0
           /\ batch.result[1].knotenDistribution = Zeros(10)
    /\ (RiemDone /\ riem.numRuns = 0) =>
           /\ riem.result[1].totalKnotenAnalyzed = 0
           /\ riem.result[1].reSValues = <<>>
           /\ riem.result[1].meanReS = 0
           /\ riem.result[1].medianReS = 0
           /\ riem.result[1].stdDevReS = 0
           /\ riem.result[1].densityGrid = <<>>
           /\ riem.result[1].densityGridConfig = <<>>

\* both analyses have finished with numRuns = 0
C13_Witness ==
    /\ BatchDone /\ batch.numRuns = 0 /\ batch.result # <<>>
    /\ RiemDone /\ riem.numRuns = 0 /\ riem.result # <<>>

----------------------------------------------------------------------------
(* Claims about the parameter search (SpecSearch, SpecSearchLive) *)

Searching == search.isSearching

Success == ~search.isSearching /\ search.searchStatusMessage.kind = "Knoten gefunden"

Exhausted == ~search.isSearching /\ search.searchStatusMessage.kind = "Kein Knoten"

\* C18: every search that is started eventually leaves the searching
\* state, ending in Success or in Exhausted, whatever values are drawn.
C18_SearchTerminates == Searching ~> (Success \/ Exhausted)

\* The search waits for a count that no render will report: the trial
\* triple is the one simulationData was last computed for
C18_Stuck ==
    /\ Searching
    /\ search.pc = "idle"
    /\ search.knotenCountFromSim = -1
    /\ search.memoDeps = Props(search)

\* The attempt counter is within the budget
InBudget(app) ==
    /\ app.currentSearchAttempt <= MAX_SEARCH_ATTEMPTS
    /\ app.isSearching => app.currentSearchAttempt >= 1

\* C19: the attempt counter is 1 when a search starts, grows by exactly 1
\* after each attempt that produced 0 nodes and never exceeds
\* MAX_SEARCH_ATTEMPTS = 50; Exhausted is reported exactly when attempt 50
\* produced 0 nodes, and no attempt is made after it.
C19_AttemptBudget ==
    [][/\ InBudget(search) /\ InBudget(search')
       /\ (~Searching /\ Searching') => search'.currentSearchAttempt = 1
       /\ search'.currentSearchAttempt # search.currentSearchAttempt =>
              \/ ~Searching /\ Searching'
              \/ /\ Searching /\ search.knotenCountFromSim = 0
                 /\ search'.currentSearchAttempt = search.currentSearchAttempt + 1
                 /\ search'.draws = search.draws + 1
       /\ (Searching /\ search.knotenCountFromSim = 0
              /\ search.currentSearchAttempt < MAX_SEARCH_ATTEMPTS) =>
              /\ search'.currentSearchAttempt = search.currentSearchAttempt + 1
              /\ Searching'
       /\ (Searching /\ Exhausted') <=>
              (Searching /\ search.knotenCountFromSim = 0
                 /\ search.currentSearchAttempt = MAX_SEARCH_ATTEMPTS)
       /\ (Exhausted /\ ~Searching') =>
              /\ search'.draws = search.draws
              /\ search'.currentSearchAttempt = search.currentSearchAttempt
              /\ search'.reported = search.reported
       /\ Searching' => search'.draws = search'.currentSearchAttempt]_vars

\* a search has ended as exhausted after 50 attempts of 0 nodes each
C19_Witness ==
    /\ Exhausted
    /\ search.currentSearchAttempt = 50
    /\ search.draws = 50
    /\ search.reported = Zeros(50)

\* C20: Success is declared at the first attempt whose simulation reported
\* at least one node, and only then; the noise, threshold and seed held and
\* named in the message are the ones that simulation ran with, and nothing
\* is drawn after Success.
C20_SearchSuccess ==
    [][/\ (Searching /\ search.knotenCountFromSim > 0) => Success'
       /\ (Searching /\ Success') =>
              /\ search.knotenCountFromSim > 0
              /\ search.knotenCountFromSim = search.sim[Props(search)]
              /\ search.memoDeps = Props(search)
              /\ Props(search') = Props(search)
              /\ search'.searchStatusMessage =
                     KnotenGefunden(search.currentSearchAttempt, search.noise,
                                    search.threshold, search.currentSeed)
              /\ Len(search.reported) = search.currentSearchAttempt
              /\ \A k \in 1..Len(search.reported) :
                     (search.reported[k] > 0) <=> (k = search.currentSearchAttempt)
       /\ (Success /\ ~Searching') =>
              /\ search'.draws = search.draws
              /\ search'.currentSeed = search.currentSeed
              /\ search'.searchStatusMessage = search.searchStatusMessage
              /\ search'.noise # search.noise => search.pc = "idle"
              /\ search'.threshold # search.threshold => search.pc = "idle"
              /\ search'.duration # search.duration => search.pc = "idle"]_vars

\* the second attempt of a search has succeeded, with another trial triple
\* than the first
C20_Witness ==
    /\ Success
    /\ search.reported = <<0, 2>>
    /\ search.currentSearchAttempt = 2
    /\ search.searchStatusMessage =
           KnotenGefunden(2, search.noise, search.threshold, search.currentSeed)
    /\ search.memoDeps = Props(search)

\* The trial values lie in the ranges of the search
TrialInRange(app) ==
    /\ app.noise \in 5..75
    /\ app.threshold \in 7..18
    /\ app.currentSeed \in 0..999999

\* C21: in every attempt of a search, the first one and each later one,
\* the three trial values are newly drawn and lie in range: the noise in
\* [0.05, 0.75] with 2 decimals, the threshold in [0.7, 1.8] with 1
\* decimal, the seed an integer of [0, 1000000).
C21_TrialValues ==
    [][/\ Searching' => TrialInRange(search')
       /\ (~Searching /\ Searching') => search'.draws = 1
       /\ (Searching /\ search'.currentSearchAttempt # search.currentSearchAttempt) =>
              search'.draws = search.draws + 1
       /\ Searching' => search'.draws = search'.currentSearchAttempt
       /\ search'.draws # search.draws =>
              /\ search'.noise \in SearchNoises
              /\ search'.threshold \in SearchThresholds
              /\ search'.currentSeed \in SearchSeeds]_vars

\* the second attempt of a search runs with the largest noise and
\* threshold and the smallest seed drawn, after a first one with the
\* smallest noise
C21_Witness ==
    /\ Searching
    /\ search.currentSearchAttempt = 2
    /\ search.draws = 2
    /\ search.noise = 75 /\ search.threshold = 18 /\ search.currentSeed = 0
    /\ search.memoDeps[2] = 5
    /\ search.pc = "render"

\* A control of the sidebar can be used: a slider moved or a search started
ControlEnabled ==
    \/ ENABLED (\E d \in SearchDurations : SetDuration(d))
    \/ ENABLED (\E n \in SliderNoises : SetNoise(n))
    \/ ENABLED (\E t \in SliderThresholds : SetThreshold(t))
    \/ ENABLED (\E n \in SearchNoises, t \in SearchThresholds, s \in SearchSeeds :
                   HandleStartSearch(n, t, s))

\* C22: while a search is in progress the duration is not changed, the
\* three sliders and the search button are disabled, noise, threshold and
\* seed change only by a drawing of the search itself, and no second search
\* is started.
C22_SearchFrame ==
    [][Searching =>
          /\ ~ControlEnabled
          /\ search'.duration = search.duration
          /\ (\/ search'.noise # search.noise
              \/ search'.threshold # search.threshold
              \/ search'.currentSeed # search.currentSeed) =>
                 /\ Searching'
                 /\ search'.draws = search.draws + 1
                 /\ search'.currentSearchAttempt = search.currentSearchAttempt + 1
          /\ search'.currentSearchAttempt >= search.currentSearchAttempt
          /\ Len(search'.reported) >= Len(search.reported)]_vars

\* a search is at its second attempt with the duration the slider was set
\* to before it was started
C22_Witness ==
    /\ Searching
    /\ search.duration = 200
    /\ search.currentSearchAttempt = 2
    /\ search.pc = "idle"
    /\ search.memoDeps = Props(search)
    /\ ~ControlEnabled

----------------------------------------------------------------------------
(* Claims about the asynchronous analyses (SpecPanel) *)

\* The runs a call has made were all made with the call's own values
UsesOwn(call) ==
    \A k \in 1..Len(call.used) :
        call.used[k] = <<call.closure.duration, call.closure.noise,
                         call.closure.threshold>>

\* A result names the values of the call that set it, and that call has made
\* as many runs as its run count says
ReportsOwn(call, result) ==
    result # <<>> =>
        /\ result[1].totalRuns = call.closure.numRuns
        /\ Len(call.used) = call.closure.numRuns
        /\ result[1].parameters.duration = call.closure.duration
        /\ result[1].parameters.noise = call.closure.noise
        /\ result[1].parameters.threshold = call.closure.threshold

\* The values a call holds are those of the component at the step that
\* started it
StartedWith(call, p) ==
    /\ call.closure.numRuns = p.numRuns
    /\ call.closure.duration = p.props[1]
    /\ call.closure.noise = p.props[2]
    /\ call.closure.threshold = p.props[3]

\* C23: all runs of a batch analysis are made with the duration, the noise
\* factor and the threshold, and the loop with the run count, that were
\* current when the analysis was started; the result names these values; and
\* this is so whatever the props become while the analysis waits between runs
C23_BatchParameters ==
    [][/\ panel.knotFreq.pc = "idle" /\ panel'.knotFreq.pc = "await"
            => StartedWith(panel'.knotFreq, panel)
       /\ panel.riemann.pc = "idle" /\ panel'.riemann.pc = "await"
            => StartedWith(panel'.riemann, panel)
       /\ panel.knotFreq.pc = "await"
            => panel'.knotFreq.closure = panel.knotFreq.closure
       /\ panel.riemann.pc = "await"
            => panel'.riemann.closure = panel.riemann.closure
       /\ UsesOwn(panel'.knotFreq)
       /\ UsesOwn(panel'.riemann)
       /\ ReportsOwn(panel'.knotFreq, panel'.knotFreqAnalysisResult)
       /\ ReportsOwn(panel'.riemann, panel'.riemannAnalysisResult)]_vars

\* An analysis between two of its runs, the props no longer those it was
\* started with
C23_Witness ==
    /\ panel.riemann.pc = "await"
    /\ panel.riemann.i >= 2
    /\ panel.riemann.i < panel.riemann.closure.numRuns
    /\ panel.props[1] # panel.riemann.closure.duration
    /\ panel.props[2] # panel.riemann.closure.noise

\* One of the start buttons, one of the run count sliders or the scaling
\* slider can be used
PanelControlEnabled ==
    \/ ENABLED HandleRunKnotFrequencyAnalysis
    \/ ENABLED HandleRunRiemannAnalysis
    \/ ENABLED (\E n \in RunCounts : SetNumRuns(n))
    \/ ENABLED (\E s \in Scalings : SetRiemannScalingFactor(s))

\* A call that has ended has left a result with its run count, after as many
\* runs
Ended(call, isLoading, result) ==
    (~isLoading /\ call.closure # <<>>) =>
        /\ result # <<>>
        /\ result[1].totalRuns = call.closure.numRuns
        /\ call.i = call.closure.numRuns

OneAnalysis ==
    /\ ~(panel.knotFreq.pc = "await" /\ panel.riemann.pc = "await")
    /\ panel.knotFreqIsLoading <=> panel.knotFreq.pc = "await"
    /\ panel.riemannIsLoading <=> panel.riemann.pc = "await"
    /\ (panel.knotFreqIsLoading \/ panel.riemannIsLoading) => ~PanelControlEnabled
    /\ panel.knotFreqIsLoading => panel.knotFreqAnalysisResult = <<>>
    /\ panel.riemannIsLoading => panel.riemannAnalysisResult = <<>>
    /\ Ended(panel.knotFreq, panel.knotFreqIsLoading, panel.knotFreqAnalysisResult)
    /\ Ended(panel.riemann, panel.riemannIsLoading, panel.riemannAnalysisResult)

\* C30: the two analyses are never both in progress; while a loading flag is
\* set neither start button, neither run count slider nor the scaling slider
\* can be used and the result of the analysis in progress is empty; and an
\* analysis in progress comes to its end, where its flag is reset and its
\* result holds the run count it was started with
C30_OneAnalysis ==
    /\ []OneAnalysis
    /\ panel.knotFreqIsLoading
          ~> (~panel.knotFreqIsLoading /\ panel.knotFreqAnalysisResult # <<>>)
    /\ panel.riemannIsLoading
          ~> (~panel.riemannIsLoading /\ panel.riemannAnalysisResult # <<>>)

\* A Riemann analysis has ended with its 20 runs after a node frequency
\* analysis of 10 runs, which is in progress once more
C30_Witness ==
    /\ panel.riemannAnalysisResult # <<>>
    /\ panel.riemannAnalysisResult[1].totalRuns = 20
    /\ panel.riemann.i = 20
    /\ panel.knotFreqIsLoading
    /\ panel.knotFreq.closure.numRuns = 10
    /\ panel.knotFreq.i = 5
    /\ ~PanelControlEnabled

----------------------------------------------------------------------------
(* Claims about the generator of a run (Spec, SpecRng, SpecRandn) *)

\* C24: every call of calculateSimulationData is given a SeededRandom of its
\* own: the register it starts from is the one the constructor makes of the
\* call's seed, whatever register the instance of the previous call was left
\* with
C24_OwnGenerator ==
    [][runNo' # runNo => rng' = SeededRandom(args'.seed)]_vars

\* A second call is about to draw, after a first call that has drawn and
\* left its register elsewhere
C24_Witness ==
    /\ runNo = 2
    /\ pc = "u"
    /\ drawLog = <<>>
    /\ rng = SeededRandom(args.seed)
    /\ Len(prevSamples) > 0
    /\ prevArgs.seed = args.seed

C26_RandnTerminates ==
    /\ [](rn.draws <= 4 /\ rn.zeros <= 2)
    /\ [](rn.pc = "v" => rn.u.num # 0)
    /\ [][(rn.pc = rn'.pc /\ rn'.draws = rn.draws + 1) =>
              (rn'.seed = 0 /\ rn'.zeros = rn.zeros + 1)]_vars
    /\ [][(rn.pc = "v" /\ rn'.pc = "idle") =>
              (rn.u.num # 0 /\ rn'.seed # 0 /\ rn'.calls = rn.calls + 1)]_vars

\* A call entered at 2090002021 has ended after three draws: u, a 0 that was
\* discarded for v, and v
C26_Witness ==
    /\ rn.from = 2090002021
    /\ rn.pc = "idle"
    /\ rn.calls = 1
    /\ rn.zeros = 1
    /\ rn.draws = 3
    /\ rn.u.num # 0
    /\ rn.seed = c

----------------------------------------------------------------------------
(* Claims about the pending marker of the search (SpecSearch) *)

\* The node count of the current attempt has not been reported yet
Pending == Searching /\ search.knotenCountFromSim = -1

\* The step takes the verdict of the current attempt: the search ends or
\* goes on to the next attempt
Verdict ==
    /\ Searching
    /\ ~search'.isSearching \/
          search'.currentSearchAttempt # search.currentSearchAttempt

\* C27: while the count of the current attempt is pending (-1) no step ends
\* the search or takes it to another attempt or other trial values; a
\* verdict is taken on the count that the simulation with the attempt's
\* parameters has reported, as the attempt's report; and a reported count is
\* met by a verdict in the next step, which ends the search or sets the
\* marker again, so that no second verdict is taken on it
C27_PendingMarker ==
    [][/\ Pending =>
              /\ ~Verdict
              /\ Props(search') = Props(search)
              /\ Len(search.reported) = search.currentSearchAttempt - 1
       /\ Verdict =>
              /\ search.knotenCountFromSim >= 0
              /\ search.memoDeps = Props(search)
              /\ search.knotenCountFromSim = search.sim[Props(search)]
              /\ Len(search.reported) = search.currentSearchAttempt
              /\ search.reported[search.currentSearchAttempt] =
                     search.knotenCountFromSim
              /\ Len(search'.reported) = Len(search.reported)
              /\ search'.isSearching => search'.knotenCountFromSim = -1
       /\ (Searching /\ search.knotenCountFromSim >= 0) => Verdict]_vars

\* The second attempt waits for its count after the verdict on the first
\* one, whose simulation reported 0
C27_Witness ==
    /\ Pending
    /\ search.currentSearchAttempt = 2
    /\ search.reported = <<0>>
    /\ search.pc = "render"
    /\ search.memoDeps # Props(search)

----------------------------------------------------------------------------
(* Claims about the draws of a run (Spec) *)

\* C28: the k-th normal variate of a run is drawn for the energy of time k
\* while k <= steps and for the phase of time k - steps after that, and is
\* stored at that index; a run that has come to its final map has drawn
\* 2 * steps variates, steps the length Steps gives for its duration
C28_DrawSequence ==
    /\ Len(drawLog) <= 2 * Len(timeArray)
    /\ \A k \in 1..Len(drawLog) :
          drawLog[k] = IF k <= Len(timeArray) THEN <<"energie", k>>
                       ELSE <<"phase", k - Len(timeArray)>>
    /\ Len(energieArray) = Min(Len(drawLog), Len(timeArray))
    /\ Len(phaseArray) = Max(0, Len(drawLog) - Len(timeArray))
    /\ pc \in {"points", "done"} /\ runNo > 0 =>
          /\ Len(timeArray) = Steps(args.duration)
          /\ Len(drawLog) = 2 * Steps(args.duration)

\* A run of 10 samples with noise has returned after its 20 variates
C28_Witness ==
    /\ pc = "done"
    /\ args.noise = 30
    /\ Len(samples) = 10
    /\ Len(drawLog) = 20
    /\ drawLog[10] = <<"energie", 10>>
    /\ drawLog[11] = <<"phase", 1>>

\* The register a loop of randn leaves, entered at register r
RECURSIVE AfterLoop(_)
AfterLoop(r) ==
    LET f == nextFloat(r)
    IN  IF f.seed >= 0 /\ Redraw(f.value) THEN AfterLoop(f.seed) ELSE f.seed

\* The register k calls of randn leave, the first entered at register r
\* (the comparison has each register evaluated before the next call)
RECURSIVE AfterRandn(_, _)
AfterRandn(r, k) ==
    LET next == AfterLoop(AfterLoop(r))
    IN  IF k = 0 THEN r
        ELSE IF next >= 0 THEN AfterRandn(next, k - 1) ELSE next

\* C29: two runs with noise 0 and the same duration and threshold return
\* the same samples, node fields included, whatever their seeds; and the
\* register a run leaves is the one that 2 * steps calls of randn leave from
\* the seed's register, with noise 0 as with any other noise
C29_NoiseZero ==
    pc = "done" /\ runNo > 0 =>
        /\ rng = AfterRandn(SeededRandom(args.seed), 2 * Steps(args.duration))
        /\ rng # SeededRandom(args.seed)
        /\ (/\ runNo = 2
            /\ args.noise = 0 /\ prevArgs.noise = 0
            /\ args.duration = prevArgs.duration
            /\ args.threshold = prevArgs.threshold) => samples = prevSamples

\* Two runs with noise 0 and different seeds have returned the same 12
\* samples
C29_Witness ==
    /\ pc = "done" /\ runNo = 2
    /\ args.noise = 0 /\ prevArgs.noise = 0
    /\ args.duration = prevArgs.duration
    /\ args.seed # prevArgs.seed
    /\ Len(samples) = 12
    /\ samples = prevSamples
    /\ rng = AfterRandn(SeededRandom(args.seed), 24)

====
